---- MODULE Spec2Model ----
(***************************************************************************)
(* A model of the TTree writer (uproot/writing/_cascadetree.py, class Tree)*)
(* and of the RNTuple reader (uproot/models/RNTuple.py).                   *)
(*                                                                         *)
(* Python's 0-based arrays are 1-based sequences here: At/SetAt translate. *)
(* An operation that raises returns the state it had reached with the      *)
(* exception's name in .err; whatever it assigned before raising stays     *)
(* assigned, as in the code.                                               *)
(***************************************************************************)
EXTENDS Integers, Sequences, FiniteSets, TLC

\* ---------------------------------------------------------------- bounds
\* number of extend calls made on one tree
MaxCalls == 3
\* largest number of entries (rows) in one batch
MaxBatch == 2
\* number of those calls that may fail
MaxFailures == 2

VARIABLES
    \* ---- Tree (writer)
    basket_capacity,   \* self._basket_capacity
    resize_factor,     \* self._resize_factor, a rational [num, den]
    branch_data,       \* self._branch_data
    num_entries,       \* self._num_entries
    num_baskets,       \* self._num_baskets
    metadata,          \* self._metadata (fTotBytes, fZipBytes)
    key,               \* self._key: [location, num_bytes, compressed_bytes]
    freesegments,      \* self._freesegments: [end, free, calls]
    metadata_start,    \* self._metadata_start
    sink_log,          \* the sink operations issued by the last extend call
    moved,             \* the file._move_tree(oldloc, newloc) calls so far
    call_order,        \* the calls the last extend made on the sink, the
                       \* free-space manager and the file, in order
    outcome,           \* how the last extend call ended: "ok" or the exception
    ncalls,            \* extend calls made so far
    nfailed,           \* extend calls that raised so far
    \* ---- RNTuple (reader)
    source,            \* self.file.source: the header and footer envelopes
    rntuple,           \* the RNTuple object and what its last call did
    rnt_call,          \* the last call made on it
    \* ---- RNTuple (decoding of columns and records)
    decode_call,       \* the decoding function applied last
    decode_in,         \* what it was applied to
    decode_out         \* what it returned

tree_vars == <<basket_capacity, resize_factor, branch_data, num_entries,
               num_baskets, metadata, key, freesegments, metadata_start,
               sink_log, moved, call_order,
               outcome, ncalls, nfailed>>

rnt_vars == <<source, rntuple, rnt_call>>

decode_vars == <<decode_call, decode_in, decode_out>>

vars == <<tree_vars, rnt_vars, decode_vars>>

\* ------------------------------------------------------------- utilities
\* Python's None
None == [none |-> TRUE]

\* no file is open
NoSource == [none |-> TRUE]

Max(a, b) == IF a >= b THEN a ELSE b

\* math.ceil(a * num / den) for a >= 0, num >= 0, den > 0
Ceil(n, d) == (n + d - 1) \div d

\* numpy.zeros(n, dtype)
Zeros(n) == [i \in 1..n |-> 0]

\* arr[i] and arr[i] = v with i counted from 0
At(arr, i) == arr[i + 1]
SetAt(arr, i, v) == [arr EXCEPT ![i + 1] = v]
InBounds(arr, i) == 0 <= i /\ i < Len(arr)

RECURSIVE Prod(_)
Prod(s) == IF s = <<>> THEN 1 ELSE Head(s) * Prod(Tail(s))

\* ------------------------------------------------------------- constants
\* numpy itemsize of the three basket tables' dtypes
tbranch13_dtype1_itemsize == 4
tbranch13_dtype2_itemsize == 8
tbranch13_dtype3_itemsize == 8
\* uproot.reading._key_format_big.size
key_format_big_size == 34
\* the end of the file before the tree is created
initial_file_end == 100
\* uproot.models.TBasket._tbasket_format2.size
tbasket_format2_size == 18
\* size of _tbranch13_format1, the first mutable block of a branch
tbranch13_format1_size == 24

\* uproot.serialization.string(x): one length byte and the characters
\* (names here are shorter than 255)
StrLen(s) ==
    CASE s = "" -> 0
      [] s \in {"x", "y", "v", "w", "r"} -> 1
      [] s \in {"nv", "nw", "zz"} -> 2
      [] s = "r_a" -> 3
      [] s = "tree" -> 4
      [] s = "TBasket" -> 7
      [] OTHER -> 5
string_size(s) == 1 + StrLen(s)

\* self._name
tree_name == "tree"

\* the counter_name and field_name callables given to the constructor
counter_name(k) == "n" \o k
field_name(b, k) == b \o "_" \o k

\* ------------------------------------------------------------ the sink
\* every operation is logged with its position and, for a write, what is
\* written (a record with at least a kind)
\* (order lists the calls made on the sink, the free-space manager and the
\* file in the order they are made)
SinkWrite(st, pos, what) ==
    [st EXCEPT !.log = Append(@, [op |-> "write", at |-> pos, what |-> what]),
               !.order = Append(@, <<"write", what.kind, pos>>)]
SinkSetFileLength(st) ==
    [st EXCEPT !.log = Append(@, [op |-> "set_file_length", at |-> st.fs.end,
                                  what |-> [kind |-> "-"]]),
               !.order = Append(@, <<"set_file_length", st.fs.end>>)]
SinkFlush(st) ==
    [st EXCEPT !.log = Append(@, [op |-> "flush", at |-> 0,
                                  what |-> [kind |-> "-"]]),
               !.order = Append(@, <<"flush">>)]

\* ------------------------------------------------- the free-space manager
\* allocate(n, dry_run=False): a fresh region at the tail of the file
\* (fs.calls lists the allocate and release calls of the current extend)
Allocate(st, n) ==
    [st EXCEPT !.fs.end = @ + n,
               !.fs.calls = Append(@, <<"allocate", st.fs.end, st.fs.end + n>>),
               !.order = Append(@, <<"allocate", st.fs.end, st.fs.end + n>>)]
AllocatedAt(st) == st.fs.end
\* release(start, stop): the region joins the free list
Release(st, start, stop) ==
    [st EXCEPT !.fs.free = @ \cup {<<start, stop>>},
               !.fs.calls = Append(@, <<"release", start, stop>>),
               !.order = Append(@, <<"release", start, stop>>)]

\* ------------------------------------------------------ Tree.__init__
\* _branch_np: the descriptor of one branch, its basket tables sized to the
\* capacity; counter is the fName of its counter branch, "" for None
branch_np(branch_name, itemsize, shape, counter, kind, capacity) ==
    [ fName |-> branch_name,
      kind |-> kind,
      counter |-> counter,
      itemsize |-> itemsize,
      shape |-> shape,
      fEntryOffsetLen |-> IF counter = "" THEN 0 ELSE 1000,
      fTotBytes |-> 0,
      fZipBytes |-> 0,
      fBasketBytes |-> Zeros(capacity),
      fBasketEntry |-> Zeros(capacity),
      fBasketSeek |-> Zeros(capacity),
      metadata_start |-> -1,
      basket_metadata_start |-> -1,
      tleaf_maximum_value |-> 0 ]

\* the descriptor of a record-kind branch: it has no basket tables
branch_record(branch_name, keys) ==
    [ kind |-> "record", name |-> branch_name, keys |-> keys ]

\* the loop of __init__ over branch_types: a dict gives a record and one
\* branch per key, a NumPy dtype one branch, "var * T" a counter and a branch
RECURSIVE branch_data_of(_, _)
branch_data_of(branch_types, capacity) ==
    IF branch_types = <<>> THEN <<>>
    ELSE LET bt == Head(branch_types)
             these ==
               CASE bt.t = "dict" ->
                      <<branch_record(bt.name, bt.keys)>> \o
                      [i \in 1..Len(bt.keys) |->
                         branch_np(field_name(bt.name, bt.keys[i]), bt.itemsize,
                                   bt.shape, "", "normal", capacity)]
                 [] bt.t = "np" ->
                      <<branch_np(bt.name, bt.itemsize, bt.shape, "", "normal",
                                  capacity)>>
                 [] bt.t = "list" ->
                      <<branch_np(counter_name(bt.name), 4, <<>>, "", "counter",
                                  capacity),
                        branch_np(bt.name, bt.itemsize, bt.shape,
                                  counter_name(bt.name), "normal", capacity)>>
         IN these \o branch_data_of(Tail(branch_types), capacity)

\* ----------------------------------------------------- Tree.write_anew
\* key_num_bytes: the key header before the serialized record
key_num_bytes == key_format_big_size + 6 + string_size(tree_name) + string_size("")

\* bytes of the record before the tree-level counters (self._metadata_start)
tree_head_len == 6 + (16 + string_size(tree_name) + string_size("")) + 34

\* bytes of one branch object from its start to its first mutable block
branch_head_len(datum) ==
    8 + 8 + 6 + (16 + string_size(datum.fName)
                    + (1 + StrLen(datum.fName) + 3 * Len(datum.shape) + 2)) + 10

\* the size of the TLeaf special struct (fMinimum, fMaximum) of a branch
tleaf_special_struct_size(datum) == 2 * datum.itemsize

\* bytes from a branch's first mutable block to its basket tables
branch_mid_len(datum) ==
    tbranch13_format1_size + 11 + 44 + 25 + 6 + 19 + 8 + 7 + 28
    + string_size(datum.fName) + (1 + StrLen(datum.fName) + 3 * Len(datum.shape))
    + 14 + 4 + tleaf_special_struct_size(datum) + 25

\* speedbumps, the three tables and the empty fFileName
branch_tables_len(datum) ==
    1 + tbranch13_dtype1_itemsize * Len(datum.fBasketBytes)
    + 1 + tbranch13_dtype2_itemsize * Len(datum.fBasketEntry)
    + 1 + tbranch13_dtype3_itemsize * Len(datum.fBasketSeek) + 1

\* the loop of write_anew over the branches: each non-record branch gets its
\* metadata_start and basket_metadata_start; pos is the record's length so far
RECURSIVE serialize_branches(_, _, _)
serialize_branches(bd, i, pos) ==
    IF i > Len(bd) THEN [bd |-> bd, pos |-> pos]
    ELSE IF bd[i].kind = "record" THEN serialize_branches(bd, i + 1, pos)
    ELSE LET ms == pos + branch_head_len(bd[i])
             bms == ms + branch_mid_len(bd[i])
             d == [bd[i] EXCEPT !.metadata_start = ms,
                                !.basket_metadata_start = bms]
         IN serialize_branches([bd EXCEPT ![i] = d], i + 1,
                               bms + branch_tables_len(d))

\* directory.add_object(sink, "TTree", ..., raw_data, replaces=self._key):
\* the key and the record are written to a freshly allocated region
add_object(st, nbytes) ==
    LET loc == AllocatedAt(st)
        s1 == Allocate(st, key_num_bytes + nbytes)
        s2 == SinkWrite(s1, loc, [kind |-> "TTree", fMaxBaskets |-> st.cap])
        s3 == SinkFlush(SinkSetFileLength(s2))
    IN [s3 EXCEPT !.key = [location |-> loc, num_bytes |-> key_num_bytes,
                           compressed_bytes |-> nbytes]]

write_anew(st) ==
    LET nleaves == Cardinality({i \in 1..Len(st.bd) : st.bd[i].kind # "record"})
        head == tree_head_len + 116 + 13 + 6 + 11 + 8
        ser == serialize_branches(st.bd, 1, head)
        raw_len == ser.pos + 25 + 4 * nleaves + 28
    IN add_object([st EXCEPT !.bd = ser.bd, !.metadata_start = tree_head_len],
                  raw_len)

\* --------------------------------------------------- Tree.write_updates
RECURSIVE update_branches(_, _, _)
update_branches(st, i, base) ==
    IF i > Len(st.bd) THEN st
    ELSE IF st.bd[i].kind = "record" THEN update_branches(st, i + 1, base)
    ELSE LET d == st.bd[i]
             p1 == base + d.metadata_start
             p2 == p1 + tbranch13_format1_size + 11
             p3 == base + d.basket_metadata_start + 1
             p4 == p3 + tbranch13_dtype1_itemsize * Len(d.fBasketBytes) + 1
             p5 == p4 + tbranch13_dtype2_itemsize * Len(d.fBasketEntry) + 1
             p6 == base + d.basket_metadata_start - 25
                   - tleaf_special_struct_size(d)
             s1 == SinkWrite(st, p1, [kind |-> "tbranch13_format1", branch |-> d.fName,
                                      fEntryOffsetLen |-> d.fEntryOffsetLen,
                                      fWriteBasket |-> st.nb,
                                      fEntryNumber |-> st.ne])
             s2 == SinkWrite(s1, p2, [kind |-> "tbranch13_format2", branch |-> d.fName,
                                      fMaxBaskets |-> st.cap, fEntries |-> st.ne,
                                      fTotBytes |-> d.fTotBytes,
                                      fZipBytes |-> d.fZipBytes])
             s3 == SinkWrite(s2, p3, [kind |-> "fBasketBytes", branch |-> d.fName,
                                      value |-> d.fBasketBytes])
             s4 == SinkWrite(s3, p4, [kind |-> "fBasketEntry", branch |-> d.fName,
                                      value |-> d.fBasketEntry])
             s5 == SinkWrite(s4, p5, [kind |-> "fBasketSeek", branch |-> d.fName,
                                      value |-> d.fBasketSeek])
             s6 == IF d.kind = "counter"
                   THEN SinkWrite(s5, p6, [kind |-> "tleaf_special_struct",
                                           branch |-> d.fName,
                                           fMaximum |-> d.tleaf_maximum_value])
                   ELSE s5
         IN update_branches(s6, i + 1, base)

write_updates(st) ==
    LET base == st.key.location + st.key.num_bytes
        s1 == SinkWrite(st, base + st.metadata_start,
                        [kind |-> "ttree20_format1", fEntries |-> st.ne,
                         fTotBytes |-> st.md.fTotBytes,
                         fZipBytes |-> st.md.fZipBytes])
        s2 == SinkFlush(s1)
    IN update_branches(s2, 1, base)

\* ---------------------------------------------------------- Tree.extend
\* a variant of new_capacity that only scales the capacity
new_capacity_scaled(capacity, rf) == Ceil(capacity * rf.num, rf.den)

\* the capacity extend grows to
new_capacity(capacity, rf) ==
    Max(capacity + 1, Ceil(capacity * rf.num, rf.den))

\* new[: len(old)] = old on a zeroed table
Overlay(old, new) ==
    [i \in 1..Len(new) |-> IF i <= Len(old) THEN old[i] ELSE new[i]]

\* the body of the growth loop for one branch: three zeroed tables of the new
\* capacity, the old values copied in, the fencepost set past the old length
resize_tables(datum, capacity, ne) ==
    LET fBasketEntry == Overlay(datum.fBasketEntry, Zeros(capacity))
    IN [datum EXCEPT
          !.fBasketBytes = Overlay(datum.fBasketBytes, Zeros(capacity)),
          !.fBasketEntry = SetAt(fBasketEntry, Len(datum.fBasketEntry), ne),
          !.fBasketSeek = Overlay(datum.fBasketSeek, Zeros(capacity))]

\* the growth loop over self._branch_data, every datum alike: a datum without
\* basket tables raises KeyError, the branches before it already resized
RECURSIVE resize_all(_, _, _, _)
resize_all(bd, i, capacity, ne) ==
    IF i > Len(bd) THEN [bd |-> bd, err |-> ""]
    ELSE IF "fBasketBytes" \notin DOMAIN bd[i] THEN [bd |-> bd, err |-> "KeyError"]
    ELSE IF ~ InBounds(Zeros(capacity), Len(bd[i].fBasketEntry))
         THEN [bd |-> bd, err |-> "IndexError"]
    ELSE resize_all([bd EXCEPT ![i] = resize_tables(bd[i], capacity, ne)],
                    i + 1, capacity, ne)

\* file._move_tree(oldloc, newloc)
move_tree(st, oldloc, newloc) ==
    [st EXCEPT !.moved = Append(@, <<oldloc, newloc>>),
               !.order = Append(@, <<"_move_tree", oldloc, newloc>>)]

\* a variant of grow that releases the old region before it writes the
\* record anew
grow_releasing_first(st) ==
    LET capacity == new_capacity(st.cap, st.rf)
        r == resize_all(st.bd, 1, capacity, st.ne)
        s1 == [st EXCEPT !.cap = capacity, !.bd = r.bd]
    IN IF r.err # "" THEN [s1 EXCEPT !.err = r.err]
       ELSE LET oldloc == s1.key.location
                stop == oldloc + s1.key.num_bytes + s1.key.compressed_bytes
                s2 == write_anew(Release(s1, oldloc, stop))
                s3 == move_tree(s2, oldloc, s2.key.location)
            IN SinkFlush(SinkSetFileLength(s3))

\* what extend does when num_baskets >= basket_capacity - 1
grow(st) ==
    LET capacity == new_capacity(st.cap, st.rf)
        r == resize_all(st.bd, 1, capacity, st.ne)
        s1 == [st EXCEPT !.cap = capacity, !.bd = r.bd]
    IN IF r.err # "" THEN [s1 EXCEPT !.err = r.err]
       ELSE LET oldloc == s1.key.location
                stop == oldloc + s1.key.num_bytes + s1.key.compressed_bytes
                s2 == write_anew(s1)
                s3 == move_tree(s2, oldloc, s2.key.location)
                s4 == Release(s3, oldloc, stop)
            IN SinkFlush(SinkSetFileLength(s4))

\* awkward.num(v, axis=1): the row lengths of a jagged array, a NumPy array
RECURSIVE MaxDiff(_)
MaxDiff(offsets) ==
    IF Len(offsets) < 2 THEN 0
    ELSE Max(offsets[2] - offsets[1], MaxDiff(Tail(offsets)))
awkward_num(v) ==
    [is |-> "numpy", shape |-> <<Len(v.offsets) - 1>>, mx |-> MaxDiff(v.offsets)]

\* the mapping given to extend, with a counter array added for every jagged one
provided_of(data) ==
    LET jagged == {k \in DOMAIN data : data[k].is = "jagged"}
        counters == {counter_name(k) : k \in jagged}
    IN [k \in DOMAIN data \cup counters |->
          IF k \in DOMAIN data THEN data[k]
          ELSE awkward_num(data[CHOOSE j \in jagged : counter_name(j) = k])]

Without(f, k) == [j \in DOMAIN f \ {k} |-> f[j]]
With(f, k, v) == [j \in DOMAIN f \cup {k} |-> IF j = k THEN v ELSE f[j]]

\* provided[field_name(name, key)] = recordarray[key] for the keys of a record
RECURSIVE spread_record(_, _, _, _, _)
spread_record(provided, name, keys, i, recordarray) ==
    IF i > Len(keys) THEN [provided |-> provided, err |-> ""]
    ELSE IF keys[i] \notin DOMAIN recordarray.fields
         THEN [provided |-> provided, err |-> "KeyError"]
    ELSE spread_record(With(provided, field_name(name, keys[i]),
                            recordarray.fields[keys[i]]),
                       name, keys, i + 1, recordarray)

\* provided[field_name("", key)] = provided.pop(key) for a record named ""
RECURSIVE spread_unnamed(_, _, _)
spread_unnamed(provided, keys, i) ==
    IF i > Len(keys) THEN [provided |-> provided, err |-> ""]
    ELSE IF keys[i] \notin DOMAIN provided
         THEN [provided |-> provided, err |-> "KeyError"]
    ELSE spread_unnamed(With(Without(provided, keys[i]), field_name("", keys[i]),
                             provided[keys[i]]),
                        keys, i + 1)

\* a variant of leftover_check that accepts data naming no branch
leftover_check_accepting(provided) == ""

\* the check after the pairing loop: whatever is left in provided names no
\* branch
leftover_check(provided) ==
    IF DOMAIN provided # {} THEN "ValueError: extra" ELSE ""

\* the loop that pairs every branch with its array; actual_branches is an
\* ordered dict, here a sequence of <<name, array>>
RECURSIVE actual_branches_of(_, _, _, _)
actual_branches_of(bd, i, provided, actual) ==
    IF i > Len(bd)
    THEN [actual |-> actual, err |-> leftover_check(provided)]
    ELSE LET datum == bd[i] IN
      IF datum.kind = "record"
      THEN IF datum.name \in DOMAIN provided
           THEN LET r == spread_record(Without(provided, datum.name), datum.name,
                                       datum.keys, 1, provided[datum.name])
                IN IF r.err # "" THEN [actual |-> actual, err |-> r.err]
                   ELSE actual_branches_of(bd, i + 1, r.provided, actual)
           ELSE IF datum.name = ""
           THEN LET r == spread_unnamed(provided, datum.keys, 1)
                IN IF r.err # "" THEN [actual |-> actual, err |-> r.err]
                   ELSE actual_branches_of(bd, i + 1, r.provided, actual)
           ELSE [actual |-> actual, err |-> "ValueError: missing"]
      ELSE IF datum.fName \in DOMAIN provided
           THEN actual_branches_of(bd, i + 1, Without(provided, datum.fName),
                                   Append(actual, <<datum.fName,
                                                    provided[datum.fName]>>))
           ELSE [actual |-> actual, err |-> "ValueError: missing"]

\* self._branch_lookup[branch_name]
branch_lookup(bd, name) ==
    CHOOSE i \in 1..Len(bd) : bd[i].kind # "record" /\ bd[i].fName = name

\* len(branch_array)
array_len(a) == IF a.is = "jagged" THEN Len(a.offsets) - 1 ELSE a.shape[1]

\* a jagged array's content and offsets as extend normalizes them: content
\* before offsets[0] and past offsets[-1] is dropped, offsets start at 0
jagged_content_shape(a) ==
    LET first == a.offsets[1]
        last == a.offsets[Len(a.offsets)] - first
        n1 == IF first # 0 THEN Max(a.content.shape[1] - first, 0)
              ELSE a.content.shape[1]
        n2 == IF n1 > last THEN last ELSE n1
    IN <<n2>> \o Tail(a.content.shape)
jagged_offsets(a) == [i \in 1..Len(a.offsets) |-> a.offsets[i] - a.offsets[1]]

\* the loop that checks and encodes every array; num_entries is -1 for None
RECURSIVE encode_all(_, _, _, _, _)
encode_all(st, actual, i, tofill, n_entries) ==
    IF i > Len(actual)
    THEN [st |-> st, tofill |-> tofill, num_entries |-> n_entries]
    ELSE LET name == actual[i][1]
             branch_array == actual[i][2]
             k == branch_lookup(st.bd, name)
             datum == st.bd[k]
             n == IF n_entries = -1 THEN array_len(branch_array) ELSE n_entries
             failed(e) == [st |-> [st EXCEPT !.err = e], tofill |-> tofill,
                           num_entries |-> n]
         IN
      IF n_entries # -1 /\ n_entries # array_len(branch_array)
      THEN failed("ValueError: entries")
      ELSE IF datum.counter = ""
      THEN IF branch_array.is # "numpy" THEN failed("ValueError: shape")
           ELSE IF branch_array.shape # <<array_len(branch_array)>> \o datum.shape
           THEN failed("ValueError: shape")
           ELSE LET fill == [name |-> name, jagged |-> FALSE,
                             array |-> [shape |-> branch_array.shape,
                                        itemsize |-> datum.itemsize],
                             offsets |-> <<>>]
                IN IF datum.kind = "counter"
                   THEN IF Prod(branch_array.shape) = 0
                        THEN [st |-> [st EXCEPT !.err = "ValueError: max"],
                              tofill |-> Append(tofill, fill), num_entries |-> n]
                        ELSE encode_all(
                               [st EXCEPT !.bd[k].tleaf_maximum_value =
                                             Max(branch_array.mx, @)],
                               actual, i + 1, Append(tofill, fill), n)
                   ELSE encode_all(st, actual, i + 1, Append(tofill, fill), n)
      ELSE IF branch_array.is # "jagged" THEN failed("AttributeError")
           ELSE LET shape == jagged_content_shape(branch_array)
                IN IF Tail(shape) # datum.shape THEN failed("ValueError: shape")
                   ELSE encode_all(st, actual, i + 1,
                          Append(tofill,
                                 [name |-> name, jagged |-> TRUE,
                                  array |-> [shape |-> <<Prod(shape)>>,
                                             itemsize |-> datum.itemsize],
                                  offsets |-> jagged_offsets(branch_array)]),
                          n)

\* fKeylen of a basket of the named branch
basket_fKeylen(branch_name) ==
    key_format_big_size + string_size("TBasket") + string_size(branch_name)
    + string_size(tree_name) + tbasket_format2_size + 1

\* a variant of emit_basket that writes at the end of the file without
\* allocating the region
emit_basket_unallocated(st, basket, io_ok) ==
    LET location == AllocatedAt(st)
    IN IF ~ io_ok
       THEN [st |-> [st EXCEPT !.err = "IOError"], totbytes |-> 0, zipbytes |-> 0,
             location |-> location]
       ELSE [st |-> SinkFlush(SinkSetFileLength(SinkWrite(st, location, basket))),
             totbytes |-> basket.fNbytes, zipbytes |-> basket.fNbytes,
             location |-> location]

\* allocate the basket's region, write it (sink.write raising when io_ok is
\* false), set the file length and flush
emit_basket(st, basket, io_ok) ==
    LET location == AllocatedAt(st)
        s1 == Allocate(st, basket.fNbytes)
    IN IF ~ io_ok
       THEN [st |-> [s1 EXCEPT !.err = "IOError"], totbytes |-> 0, zipbytes |-> 0,
             location |-> location]
       ELSE [st |-> SinkFlush(SinkSetFileLength(SinkWrite(s1, location, basket))),
             totbytes |-> basket.fNbytes, zipbytes |-> basket.fNbytes,
             location |-> location]

np_basket(branch_name, array) ==
    LET fKeylen == basket_fKeylen(branch_name)
        raw_len == Prod(array.shape) * array.itemsize
        itemsize == array.itemsize * Prod(Tail(array.shape))
    IN [kind |-> "TBasket", branch |-> branch_name,
        fNbytes |-> fKeylen + raw_len, fObjlen |-> raw_len, fKeylen |-> fKeylen,
        fNevBufSize |-> itemsize, fNevBuf |-> array.shape[1],
        fLast |-> fKeylen + raw_len,
        data_bytes |-> raw_len, offsets_count |-> 0, offsets |-> <<>>]

write_np_basket(st, branch_name, array, io_ok) ==
    emit_basket(st, np_basket(branch_name, array), io_ok)

\* a variant of jagged_basket that stores the last offset as it is
jagged_basket_keeping_last(branch_name, array, offsets) ==
    LET fKeylen == basket_fKeylen(branch_name)
        raw_len == Prod(array.shape) * array.itemsize
        itemsize == array.itemsize * Prod(Tail(array.shape))
        scaled == [i \in 1..Len(offsets) |-> offsets[i] * itemsize + fKeylen]
        fObjlen == raw_len + 4 + 4 * Len(scaled)
    IN [kind |-> "TBasket", branch |-> branch_name,
        fNbytes |-> fKeylen + fObjlen, fObjlen |-> fObjlen, fKeylen |-> fKeylen,
        fNevBufSize |-> Len(offsets) + 1, fNevBuf |-> Len(offsets) - 1,
        fLast |-> scaled[Len(scaled)],
        data_bytes |-> raw_len, offsets_count |-> Len(offsets), offsets |-> scaled]

\* the basket of a jagged branch: the flattened content, the number of
\* offsets, and the offsets scaled by the item size and biased by fKeylen,
\* the last one replaced by 0 and kept as fLast
jagged_basket(branch_name, array, offsets) ==
    LET fKeylen == basket_fKeylen(branch_name)
        raw_len == Prod(array.shape) * array.itemsize
        itemsize == array.itemsize * Prod(Tail(array.shape))
        scaled == [i \in 1..Len(offsets) |-> offsets[i] * itemsize + fKeylen]
        fLast == scaled[Len(scaled)]
        stored == [scaled EXCEPT ![Len(scaled)] = 0]
        fObjlen == raw_len + 4 + 4 * Len(stored)
    IN [kind |-> "TBasket", branch |-> branch_name,
        fNbytes |-> fKeylen + fObjlen, fObjlen |-> fObjlen, fKeylen |-> fKeylen,
        fNevBufSize |-> Len(offsets) + 1, fNevBuf |-> Len(offsets) - 1,
        fLast |-> fLast,
        data_bytes |-> raw_len, offsets_count |-> Len(offsets), offsets |-> stored]

write_jagged_basket(st, branch_name, array, offsets, io_ok) ==
    emit_basket(st, jagged_basket(branch_name, array, offsets), io_ok)

\* a variant of record_basket that leaves the branch's fZipBytes as it was
record_basket_uncounted(st, k, fill, w, n_entries) ==
    LET d0 == st.bd[k]
        d1 == IF fill.jagged
              THEN [d0 EXCEPT !.fEntryOffsetLen = 4 * (Len(fill.offsets) - 1)]
              ELSE d0
        d2 == [d1 EXCEPT !.fTotBytes = @ + w.totbytes]
        d3 == [d2 EXCEPT !.fBasketBytes = SetAt(@, st.nb, w.zipbytes)]
        d4 == IF st.nb + 1 < st.cap
              THEN [d3 EXCEPT !.fBasketEntry =
                      SetAt(@, st.nb + 1, n_entries + At(d3.fBasketEntry, st.nb))]
              ELSE d3
    IN [st EXCEPT !.bd[k] = [d4 EXCEPT !.fBasketSeek =
                                         SetAt(@, st.nb, w.location)]]

\* what the basket loop records in a branch once its basket is written
record_basket(st, k, fill, w, n_entries) ==
    LET d0 == st.bd[k]
        d1 == IF fill.jagged
              THEN [d0 EXCEPT !.fEntryOffsetLen = 4 * (Len(fill.offsets) - 1)]
              ELSE d0
        d2 == [d1 EXCEPT !.fTotBytes = @ + w.totbytes, !.fZipBytes = @ + w.zipbytes]
        put(d) == [st EXCEPT !.bd[k] = d]
    IN IF ~ InBounds(d2.fBasketBytes, st.nb)
       THEN [put(d2) EXCEPT !.err = "IndexError"]
       ELSE LET d3 == [d2 EXCEPT !.fBasketBytes = SetAt(@, st.nb, w.zipbytes)]
            IN IF st.nb + 1 < st.cap /\ ~ InBounds(d3.fBasketEntry, st.nb + 1)
               THEN [put(d3) EXCEPT !.err = "IndexError"]
               ELSE LET d4 == IF st.nb + 1 < st.cap
                              THEN [d3 EXCEPT !.fBasketEntry =
                                      SetAt(@, st.nb + 1,
                                            n_entries + At(d3.fBasketEntry, st.nb))]
                              ELSE d3
                    IN IF ~ InBounds(d4.fBasketSeek, st.nb)
                       THEN [put(d4) EXCEPT !.err = "IndexError"]
                       ELSE put([d4 EXCEPT !.fBasketSeek =
                                              SetAt(@, st.nb, w.location)])

\* the loop that writes one basket per entry of tofill; the sink raises at
\* the failat-th basket (0: never)
RECURSIVE write_baskets(_, _, _, _, _, _, _)
write_baskets(st, tofill, i, n_entries, failat, uncompressed, compressed) ==
    IF i > Len(tofill)
    THEN [st |-> st, uncompressed_bytes |-> uncompressed,
          compressed_bytes |-> compressed]
    ELSE LET fill == tofill[i]
             k == branch_lookup(st.bd, fill.name)
             w == IF fill.jagged
                  THEN write_jagged_basket(st, fill.name, fill.array, fill.offsets,
                                           failat # i)
                  ELSE write_np_basket(st, fill.name, fill.array, failat # i)
         IN IF w.st.err # ""
            THEN [st |-> w.st, uncompressed_bytes |-> uncompressed,
                  compressed_bytes |-> compressed]
            ELSE LET s1 == record_basket(w.st, k, fill, w, n_entries)
                 IN IF s1.err # ""
                    THEN [st |-> s1, uncompressed_bytes |-> uncompressed + w.totbytes,
                          compressed_bytes |-> compressed + w.zipbytes]
                    ELSE write_baskets(s1, tofill, i + 1, n_entries, failat,
                                       uncompressed + w.totbytes,
                                       compressed + w.zipbytes)

\* a variant of finish_extend that sets num_entries to the batch's size
finish_extend_overwriting(st, n_entries, uncompressed, compressed) ==
    IF n_entries = -1 THEN [st EXCEPT !.err = "TypeError"]
    ELSE write_updates([st EXCEPT !.ne = n_entries,
                                  !.nb = @ + 1,
                                  !.md.fTotBytes = @ + uncompressed,
                                  !.md.fZipBytes = @ + compressed])

\* the end of extend: the tree's counters, then write_updates
finish_extend(st, n_entries, uncompressed, compressed) ==
    IF n_entries = -1 THEN [st EXCEPT !.err = "TypeError"]
    ELSE write_updates([st EXCEPT !.ne = @ + n_entries,
                                  !.nb = @ + 1,
                                  !.md.fTotBytes = @ + uncompressed,
                                  !.md.fZipBytes = @ + compressed])

extend(st, data, failat) ==
    LET s1 == IF st.nb >= st.cap - 1 THEN grow(st) ELSE st
    IN IF s1.err # "" THEN s1 ELSE
    LET ab == actual_branches_of(s1.bd, 1, provided_of(data), <<>>)
    IN IF ab.err # "" THEN [s1 EXCEPT !.err = ab.err] ELSE
    LET enc == encode_all(s1, ab.actual, 1, <<>>, -1)
    IN IF enc.st.err # "" THEN enc.st ELSE
    LET wr == write_baskets(enc.st, enc.tofill, 1, enc.num_entries, failat, 0, 0)
    IN IF wr.st.err # "" THEN wr.st
       ELSE finish_extend(wr.st, enc.num_entries, wr.uncompressed_bytes,
                          wr.compressed_bytes)

\* ------------------------------------------------- trees and their input
\* the branch_types the trees are constructed from
TreeA == << [name |-> "x", t |-> "np", itemsize |-> 4, shape |-> <<>>, keys |-> <<>>] >>
TreeC == << [name |-> "v", t |-> "list", itemsize |-> 4, shape |-> <<>>, keys |-> <<>>] >>
TreeD == << [name |-> "y", t |-> "np", itemsize |-> 8, shape |-> <<2>>, keys |-> <<>>],
            [name |-> "r", t |-> "dict", itemsize |-> 4, shape |-> <<>>,
             keys |-> <<"a">>] >>
TreeE == << [name |-> "w", t |-> "list", itemsize |-> 2, shape |-> <<2>>, keys |-> <<>>] >>
Trees == {TreeA, TreeC, TreeD, TreeE}

\* resize_factor: 0.5, 1.5 and 2.0
ResizeFactors == { [num |-> 1, den |-> 2], [num |-> 3, den |-> 2],
                   [num |-> 2, den |-> 1] }

\* initial_basket_capacity
InitialCapacities == {0, 1, 2}

\* NumPy arrays of up to MaxBatch rows of the branch's shape, and one whose
\* rows have another shape
FlatArrays(shape) ==
    { [is |-> "numpy", shape |-> <<n>> \o shape, mx |-> 0] : n \in 0..MaxBatch }
    \cup { [is |-> "numpy", shape |-> <<1, 3>>, mx |-> 0] }

\* offsets of up to MaxBatch rows of one or of two items each, starting at 0
OffsetSeqs ==
    { [i \in 1..(n + 1) |-> c * (i - 1)] : n \in 0..MaxBatch, c \in {1, 2} }

\* jagged arrays: content exactly covered by the offsets, and three arrays
\* that extend has to trim or to refuse
JaggedArrays(shape) ==
    { [is |-> "jagged", offsets |-> o,
       content |-> [shape |-> <<o[Len(o)]>> \o shape]] : o \in OffsetSeqs }
    \cup { [is |-> "jagged", offsets |-> <<1, 2>>,
            content |-> [shape |-> <<3>> \o shape]],
           [is |-> "jagged", offsets |-> <<0, 1>>,
            content |-> [shape |-> <<2>> \o shape]],
           [is |-> "jagged", offsets |-> <<0, 1>>,
            content |-> [shape |-> <<1, 3>>]] }

\* what the caller can give for a record branch: a mapping from key to array
RecordArrays(keys, shape) ==
    { [is |-> "record", fields |-> [k \in {keys[i] : i \in 1..Len(keys)} |-> a]] :
        a \in FlatArrays(shape) }
    \cup { [is |-> "record", fields |-> <<>>] }

\* the names the caller gives arrays for: every record, and every branch
\* that is neither a counter nor a field of a record
SubBranches(bd) ==
    { field_name(bd[i].name, bd[i].keys[j]) :
        i \in {i \in 1..Len(bd) : bd[i].kind = "record"}, j \in 1..1 }
UserNames(bd) ==
    { bd[i].name : i \in {i \in 1..Len(bd) : bd[i].kind = "record"} }
    \cup { bd[i].fName : i \in {i \in 1..Len(bd) :
                                   /\ bd[i].kind = "normal"
                                   /\ bd[i].fName \notin SubBranches(bd)} }
ArraysFor(bd, name) ==
    LET i == CHOOSE i \in 1..Len(bd) :
                 IF bd[i].kind = "record" THEN bd[i].name = name
                 ELSE bd[i].fName = name
    IN IF bd[i].kind = "record"
       THEN RecordArrays(bd[i].keys, bd[i + 1].shape)
       ELSE IF bd[i].counter = "" THEN FlatArrays(bd[i].shape)
       ELSE JaggedArrays(bd[i].shape)

\* an array of one row for every name
OneRow(bd) ==
    [n \in UserNames(bd) |->
       CHOOSE a \in ArraysFor(bd, n) :
         CASE a.is = "numpy" -> a.shape[1] = 1 /\ a.shape # <<1, 3>>
           [] a.is = "jagged" -> /\ a.offsets = <<0, 1>>
                                 /\ a.content.shape[1] = 1
                                 /\ a.content.shape # <<1, 3>>
           [] a.is = "record" -> \E k \in DOMAIN a.fields : a.fields[k].shape = <<1>>]

\* the mappings extend is called with: an array for every name
ExactData(bd) ==
    { f \in [UserNames(bd) -> UNION { ArraysFor(bd, n) : n \in UserNames(bd) }] :
        \A n \in UserNames(bd) : f[n] \in ArraysFor(bd, n) }

\* the calls of extend: <<data, failat>>. The sink raises at the failat-th
\* basket (0: never); the calls that leave a name out, give a name that is no
\* branch, or meet a failing sink give one row to every branch
Calls(bd) ==
    { <<f, 0>> : f \in ExactData(bd) }
    \cup { <<Without(OneRow(bd), n), 0>> : n \in UserNames(bd) }
    \cup { <<With(OneRow(bd), "zz", [is |-> "numpy", shape |-> <<1>>, mx |-> 0]), 0>> }
    \cup { <<OneRow(bd), k>> :
             k \in 1..Cardinality({i \in 1..Len(bd) : bd[i].kind # "record"}) }

\* the calls tried on each tree, and the tree a branch list was built from
CallsOfTree == [t \in Trees |-> Calls(branch_data_of(t, 0))]
BranchNames(bd) ==
    [i \in 1..Len(bd) |-> IF bd[i].kind = "record" THEN bd[i].name ELSE bd[i].fName]
TreeOf(bd) ==
    CHOOSE t \in Trees : BranchNames(branch_data_of(t, 0)) = BranchNames(bd)

\* ------------------------------------------------------ the state machine
TreeState ==
    [ cap |-> basket_capacity, rf |-> resize_factor, bd |-> branch_data,
      ne |-> num_entries, nb |-> num_baskets, md |-> metadata, key |-> key,
      fs |-> [freesegments EXCEPT !.calls = <<>>],
      metadata_start |-> metadata_start, log |-> <<>>, moved |-> moved,
      order |-> <<>>, err |-> "" ]

\* the tree as constructed and first written to the file
NewTree(branch_types, capacity, rf) ==
    LET st == [ cap |-> capacity, rf |-> rf,
                bd |-> branch_data_of(branch_types, capacity),
                ne |-> 0, nb |-> 0,
                md |-> [fTotBytes |-> 0, fZipBytes |-> 0],
                key |-> [location |-> 0, num_bytes |-> 0, compressed_bytes |-> 0],
                fs |-> [end |-> initial_file_end, free |-> {}, calls |-> <<>>],
                metadata_start |-> -1, log |-> <<>>, moved |-> <<>>,
                order |-> <<>>, err |-> "" ]
    IN write_anew(st)

Init ==
    \E branch_types \in Trees, capacity \in InitialCapacities, rf \in ResizeFactors :
      LET st == NewTree(branch_types, capacity, rf) IN
        /\ basket_capacity = st.cap
        /\ resize_factor = st.rf
        /\ branch_data = st.bd
        /\ num_entries = st.ne
        /\ num_baskets = st.nb
        /\ metadata = st.md
        /\ key = st.key
        /\ freesegments = [st.fs EXCEPT !.calls = <<>>]
        /\ metadata_start = st.metadata_start
        /\ sink_log = <<>>
        /\ moved = <<>>
        /\ call_order = <<>>
        /\ outcome = "new"
        /\ ncalls = 0
        /\ nfailed = 0
        /\ source = NoSource
        /\ rntuple = None
        /\ rnt_call = "-"
        /\ decode_call = "-"
        /\ decode_in = None
        /\ decode_out = None

Extend(data, failat) ==
    /\ ncalls < MaxCalls
    /\ \E st \in {extend(TreeState, data, failat)} :
        /\ basket_capacity' = st.cap
        /\ branch_data' = st.bd
        /\ num_entries' = st.ne
        /\ num_baskets' = st.nb
        /\ metadata' = st.md
        /\ key' = st.key
        /\ freesegments' = st.fs
        /\ metadata_start' = st.metadata_start
        /\ sink_log' = st.log
        /\ moved' = st.moved
        /\ call_order' = st.order
        /\ outcome' = IF st.err = "" THEN "ok" ELSE st.err
        /\ st.err # "" => nfailed < MaxFailures
        /\ nfailed' = IF st.err = "" THEN nfailed ELSE nfailed + 1
    /\ ncalls' = ncalls + 1
    /\ UNCHANGED <<resize_factor, rnt_vars, decode_vars>>

Next ==
    \E call \in CallsOfTree[TreeOf(branch_data)] : Extend(call[1], call[2])

Spec == Init /\ [][Next]_vars

\* ======================================================= the RNTuple reader
\* zlib.crc32(data): a checksum of a byte string, below 2^32
\* It takes every byte in turn, c' = (31 * c + byte + 1) modulo 65521 from
\* c = 1. MulMod is a * b modulo 65521 for a and b below it, in steps that
\* stay small
MulMod(a, b) == (((a * (b \div 256)) % 65521) * 256 + a * (b % 256)) % 65521
\* the checksum after the bytes lo..hi of data is (A * c + B) modulo 65521
\* where c is the checksum before them: the pair <<A, B>>, by halves
RECURSIVE crc32_from(_, _, _)
crc32_from(data, lo, hi) ==
    IF lo > hi THEN <<1, 0>>
    ELSE IF lo = hi THEN <<31, data[lo] + 1>>
    ELSE CHOOSE r \in { <<MulMod(l[1], h[1]),
                           (MulMod(h[1], l[2]) + h[2]) % 65521>> :
                          l \in {crc32_from(data, lo, (lo + hi) \div 2)},
                          h \in {crc32_from(data, (lo + hi) \div 2 + 1, hi)} } :
           TRUE
crc32(data) ==
    CHOOSE c \in { (r[1] + r[2]) % 65521 :
                     r \in {crc32_from(v, 1, Len(v)) : v \in {data}} } : TRUE

\* struct.Struct("<I"): four bytes, least significant first
pack_u32(v) ==
    <<v % 256, (v \div 256) % 256, (v \div 65536) % 256, (v \div 16777216) % 256>>
unpack_u32(b) == b[1] + 256 * b[2] + 65536 * b[3] + 16777216 * b[4]

\* raw_data[:-4] and raw_data[-4:]
AllButLast4(raw) == SubSeq(raw, 1, Len(raw) - 4)
Last4(raw) == SubSeq(raw, Len(raw) - 3, Len(raw))

\* HeaderReader.read: the field records (here one byte), the column records
\* (one byte each) and the trailing checksum
HeaderReader_read(raw) ==
    [ field_records |-> SubSeq(raw, 1, 1),
      column_records |-> SubSeq(raw, 2, Len(raw) - 4),
      crc32 |-> unpack_u32(Last4(raw)) ]

\* ListFrameReader.read at a cursor (counted from 1): the number of items,
\* then the items, here of item_size bytes each; the cursor ends past them
ListFrameReader_read(raw, cursor, item_size) ==
    LET num_items == raw[cursor]
    IN [ items |-> [i \in 1..num_items |->
                      SubSeq(raw, cursor + 1 + (i - 1) * item_size,
                             cursor + i * item_size)],
         cursor |-> cursor + 1 + num_items * item_size ]

\* a list of one-byte records as the values of its items
Bytes(items) == [i \in 1..Len(items) |-> items[i][1]]

\* ClusterGroupRecordReader.read: the number of clusters and the link to the
\* group's page-list envelope
ClusterGroupRecordReader_read(item) ==
    [ num_clusters |-> item[1], page_list_link |-> item[2] ]

\* RNTupleSchemaExtension.read: the field and column records of the extension
RNTupleSchemaExtension_read(raw, cursor) ==
    LET fields == ListFrameReader_read(raw, cursor, 1)
        columns == ListFrameReader_read(raw, fields.cursor, 1)
    IN [ out |-> [ field_records |-> Bytes(fields.items),
                   column_records |-> Bytes(columns.items) ],
         cursor |-> columns.cursor ]

\* FooterReader.read: the header's checksum, the schema extension, the
\* cluster summaries (one byte each), the cluster group records and the
\* trailing checksum
FooterReader_read(raw) ==
    LET extension == RNTupleSchemaExtension_read(raw, 5)
        clusters == ListFrameReader_read(raw, extension.cursor, 1)
        groups == ListFrameReader_read(raw, clusters.cursor, 2)
    IN [ header_crc32 |-> unpack_u32(SubSeq(raw, 1, 4)),
         extension_links |-> extension.out,
         cluster_summaries |-> Bytes(clusters.items),
         cluster_group_records |->
           [i \in 1..Len(groups.items) |->
              ClusterGroupRecordReader_read(groups.items[i])],
         crc32 |-> unpack_u32(Last4(raw)) ]

\* PageLink.read: the number of items of the top-most list; none: the result
\* is returned as it is, without a pagelinklist; else the list (one byte for
\* the page lists of each cluster) and the trailing checksum, which is
\* compared. compared tells whether the comparison was made
PageLink_read(raw) ==
    LET num_items == raw[1]
        list == ListFrameReader_read(raw, 1, 1)
        crc == unpack_u32(SubSeq(raw, list.cursor, list.cursor + 3))
    IN IF num_items = 0
       THEN [ out |-> [env_header |-> 1], err |-> "", compared |-> FALSE ]
       ELSE IF crc32(AllButLast4(raw)) # crc
       THEN [ out |-> [env_header |-> 1, pagelinklist |-> Bytes(list.items),
                       crc32 |-> crc],
              err |-> "AssertionError", compared |-> TRUE ]
       ELSE [ out |-> [env_header |-> 1, pagelinklist |-> Bytes(list.items),
                       crc32 |-> crc],
              err |-> "", compared |-> TRUE ]

\* read_members: nothing is read or cached yet. verified lists the envelopes
\* whose checksum comparison has passed; err, ret and events are the last
\* call's exception, return value and reads
read_members ==
    [ header_chunk_ready |-> FALSE, footer_chunk_ready |-> FALSE,
      header_chunk |-> <<>>, footer_chunk |-> <<>>,
      header |-> None, footer |-> None,
      page_list_envelopes |-> <<>>,
      verified |-> {},
      err |-> "", ret |-> None, events |-> <<>> ]

\* _prepare_header_chunk and _prepare_footer_chunk
prepare_header_chunk(o, src) ==
    [o EXCEPT !.header_chunk = src.header, !.header_chunk_ready = TRUE]
prepare_footer_chunk(o, src) ==
    [o EXCEPT !.footer_chunk = src.footer, !.footer_chunk_ready = TRUE]

\* the element of a set of one element. (Below, the result of a call that is
\* used more than once is bound to its value, as v \in {call}.)
The(S) == CHOOSE r \in S : TRUE

\* the header property
header(o, src) ==
    IF o.header # None THEN [o EXCEPT !.ret = o.header]
    ELSE The(UNION {
      { IF h.crc32 # crc32(AllButLast4(o1.header_chunk))
        THEN [o1 EXCEPT !.header = h, !.err = "AssertionError"]
        ELSE [o1 EXCEPT !.header = h, !.verified = @ \cup {"header"},
                        !.ret = h] :
          h \in {HeaderReader_read(o1.header_chunk)} } :
      o1 \in {IF ~ o.header_chunk_ready THEN prepare_header_chunk(o, src)
              ELSE o} })

\* a variant of the footer property that caches the footer on reading it
footer_cached_on_read(o, src) ==
    IF o.footer # None THEN [o EXCEPT !.ret = o.footer]
    ELSE The(UNION {
      { IF o2.err # "" THEN o2
        ELSE IF f.header_crc32 # o2.ret.crc32
        THEN [o2 EXCEPT !.err = "AssertionError", !.ret = None]
        ELSE IF f.crc32 # crc32(AllButLast4(o1.footer_chunk))
        THEN [o2 EXCEPT !.err = "AssertionError", !.ret = None]
        ELSE [o2 EXCEPT !.verified = @ \cup {"footer"}, !.ret = f] :
          f \in {FooterReader_read(o1.footer_chunk)},
          o2 \in {header([o1 EXCEPT
                            !.footer = FooterReader_read(o1.footer_chunk)],
                         src)} } :
      o1 \in {IF ~ o.footer_chunk_ready THEN prepare_footer_chunk(o, src)
              ELSE o} })

\* the footer property
footer(o, src) ==
    IF o.footer # None THEN [o EXCEPT !.ret = o.footer]
    ELSE The(UNION {
      { IF o2.err # "" THEN o2
        ELSE IF f.header_crc32 # o2.ret.crc32
        THEN [o2 EXCEPT !.err = "AssertionError", !.ret = None]
        ELSE IF f.crc32 # crc32(AllButLast4(o1.footer_chunk))
        THEN [o2 EXCEPT !.err = "AssertionError", !.ret = None]
        ELSE [o2 EXCEPT !.footer = f, !.verified = @ \cup {"footer"},
                        !.ret = f] :
          f \in {FooterReader_read(o1.footer_chunk)},
          o2 \in {header(o1, src)} } :
      o1 \in {IF ~ o.footer_chunk_ready THEN prepare_footer_chunk(o, src)
              ELSE o} })

\* a read of the header's records or of a page, with whether the envelope it
\* rests on had its checksum verified
Event(o, what, envelope) ==
    The({ [v EXCEPT !.events = Append(@, [read |-> what,
                                          verified |-> envelope \in v.verified])] :
            v \in {o} })

\* a field record is one byte: its parent's id and its name
parent_field_id(fr) == fr \div 16
field_name_of(fr) == fr % 16

\* the names of the records that are their own parent, in order
RECURSIVE top_level_names(_, _)
top_level_names(field_records, i) ==
    IF i >= Len(field_records) THEN <<>>
    ELSE (IF parent_field_id(At(field_records, i)) = i
          THEN <<field_name_of(At(field_records, i))>> ELSE <<>>)
         \o top_level_names(field_records, i + 1)

\* keys(): the names of the top-level fields in self.header.field_records
keys(o, src) ==
    The({ IF o1.err # "" THEN o1
          ELSE [Event(o1, "field_records", "header") EXCEPT
                  !.ret = [keys |-> top_level_names(o1.ret.field_records, 0)]] :
            o1 \in {header(o, src)} })

\* to_akform(): field_form and col_form read the header's field and column
\* records
to_akform(o, src) ==
    The({ IF o1.err # "" THEN o1
          ELSE The({ IF o2.err # "" THEN o2
                     ELSE [Event(o2, "column_records", "header") EXCEPT
                             !.ret = [form |-> o1.ret.field_records,
                                      columns |-> o1.ret.column_records]] :
                       o2 \in {keys(Event(o1, "field_records", "header"),
                                    src)} }) :
            o1 \in {header(o, src)} })

\* the loop of page_list_envelopes over the cluster group records from the
\* i-th on: each group's envelope is read and assigned to
\* _page_list_envelopes, held here as a list of at most one object
RECURSIVE read_page_lists(_, _, _, _)
read_page_lists(o, src, records, i) ==
    IF i > Len(records) THEN o
    ELSE The({ IF r.err # "" THEN [o EXCEPT !.err = r.err]
               ELSE read_page_lists(
                      [o EXCEPT !.page_list_envelopes = <<r.out>>,
                                !.events =
                                  Append(@, [read |-> "page_list",
                                             verified |-> r.compared,
                                             link |-> records[i].page_list_link])],
                      src, records, i + 1) :
                 r \in {PageLink_read(
                          src.page_lists[records[i].page_list_link])} })

\* the page_list_envelopes property: read through the footer's cluster group
\* records on first use
page_list_envelopes(o, src) ==
    IF o.page_list_envelopes # <<>> THEN [o EXCEPT !.ret = o.page_list_envelopes]
    ELSE The({ IF o1.err # "" THEN o1
               ELSE The({ IF o2.err # "" THEN [o2 EXCEPT !.ret = None]
                          ELSE [o2 EXCEPT !.ret = o2.page_list_envelopes] :
                            o2 \in {read_page_lists(
                                      o1, src,
                                      o1.ret.cluster_group_records, 1)} }) :
                 o1 \in {footer(o, src)} })

\* read_col_page up to the reading of the pages: the page lists of the
\* cluster in the page directory, then the pages of the column
read_col_page_links(o, src, ncol, cluster_i) ==
    The({ IF o1.err # "" THEN o1
          ELSE IF o1.ret = <<>>
          THEN [o1 EXCEPT !.err = "AttributeError", !.ret = None]
          ELSE IF "pagelinklist" \notin DOMAIN o1.ret[1]
          THEN [o1 EXCEPT !.err = "KeyError", !.ret = None]
          ELSE IF ~ InBounds(o1.ret[1].pagelinklist, cluster_i)
          THEN [o1 EXCEPT !.err = "IndexError", !.ret = None]
          ELSE [o1 EXCEPT
                  !.ret = None,
                  !.events = Append(@, [read |-> "page",
                                        verified |-> "footer" \in o1.verified,
                                        cluster |-> cluster_i, column |-> ncol,
                                        pages |-> At(o1.ret[1].pagelinklist,
                                                     cluster_i)])] :
            o1 \in {page_list_envelopes(o, src)} })

\* read_col_pages: read_col_page for the clusters from cluster_i on
RECURSIVE read_col_pages(_, _, _, _, _)
read_col_pages(o, src, ncol, cluster_i, nclusters) ==
    IF cluster_i >= nclusters THEN o
    ELSE The({ IF o1.err # "" THEN o1
               ELSE read_col_pages(o1, src, ncol, cluster_i + 1, nclusters) :
                 o1 \in {read_col_page_links(o, src, ncol, cluster_i)} })

\* the loop of arrays over the column records
RECURSIVE read_columns(_, _, _, _, _)
read_columns(o, src, i, ncolumns, nclusters) ==
    IF i >= ncolumns THEN o
    ELSE The({ IF o1.err # "" THEN o1
               ELSE read_columns(o1, src, i + 1, ncolumns, nclusters) :
                 o1 \in {read_col_pages(o, src, i, 0, nclusters)} })

\* the pages of every column of the header, after the footer and the form
read_all_columns(o3, src, nclusters) ==
    IF o3.err # "" THEN o3
    ELSE The({ IF o4.err # "" THEN o4
               ELSE [o4 EXCEPT !.ret = [array |-> nclusters]] :
                 o4 \in {read_columns(o3, src, 0, Len(o3.ret.column_records),
                                      nclusters)} })

\* arrays(): the cluster summaries of the footer, the form, then the pages
\* of every column of the form
arrays(o, src) ==
    The({ IF o1.err # "" THEN o1
          ELSE The({ IF o2.err # "" THEN o2
                     ELSE The({ read_all_columns(
                                  o3, src, Len(o1.ret.cluster_summaries)) :
                                  o3 \in {header(o2, src)} }) :
                       o2 \in {to_akform(o1, src)} }) :
            o1 \in {footer(o, src)} })

\* ----------------------------------------------------- files and calls
\* an envelope: the payload and its trailing checksum
Envelope(payload, checksum) == payload \o pack_u32(checksum)

\* header envelopes whose trailing checksum is right, or is off by one
HeaderEnvelopes ==
    { Envelope(payload, crc32(payload) + d) :
        payload \in {<<1, 5>>, <<2, 5, 6>>}, d \in {0, 1} }

\* a list frame of one-byte items, and one of cluster group records
ListFrame(items) == <<Len(items)>> \o items
RECURSIVE GroupBytes(_)
GroupBytes(groups) ==
    IF groups = <<>> THEN <<>>
    ELSE <<groups[1].num_clusters, groups[1].page_list_link>>
         \o GroupBytes(Tail(groups))

\* the payload of a footer envelope
FooterPayload(header_crc32, extension, clusters, groups) ==
    pack_u32(header_crc32) \o ListFrame(extension.field_records)
      \o ListFrame(extension.column_records) \o ListFrame(clusters)
      \o <<Len(groups)>> \o GroupBytes(groups)

NoExtension == [field_records |-> <<>>, column_records |-> <<>>]
OneGroup(clusters) == <<[num_clusters |-> Len(clusters), page_list_link |-> 1]>>

\* footer envelopes for a header: the header checksum they carry is the
\* header's trailing checksum or another value, over one or two clusters of
\* one cluster group, and their own trailing checksum is right or is off by
\* one
FooterEnvelopes(header_envelope) ==
    { Envelope(FooterPayload(unpack_u32(Last4(header_envelope)) + dh,
                             NoExtension, clusters, OneGroup(clusters)),
               crc32(FooterPayload(unpack_u32(Last4(header_envelope)) + dh,
                                   NoExtension, clusters, OneGroup(clusters)))
                 + d) :
        dh \in {0, 1, 2}, clusters \in {<<3>>, <<3, 4>>}, d \in {0, 1} }

\* a page-list envelope: the page lists of its clusters, one byte each, and
\* the trailing checksum, right or off by d
PageListEnvelope(pagelinklist, d) ==
    Envelope(ListFrame(pagelinklist), crc32(ListFrame(pagelinklist)) + d)

\* the page lists of the clusters from the first-th on, n of them
PageListsOf(first, n) == [i \in 1..n |-> 20 + first + i - 1]

\* files that differ in their checksums: a header envelope, a footer
\* envelope written for it and the page-list envelope of its cluster group
ChecksumFiles ==
    UNION { { [header |-> h, footer |-> f,
               page_lists |->
                 <<PageListEnvelope(
                     PageListsOf(0, Len(FooterReader_read(f).cluster_summaries)),
                     0)>>] :
              f \in FooterEnvelopes(h) } : h \in HeaderEnvelopes }

\* the split of a file's clusters over its cluster groups: the number of
\* clusters of each group
GroupLayouts == {<<1>>, <<2>>, <<1, 1>>, <<1, 0>>, <<0, 1>>, <<2, 1>>}

RECURSIVE SumSeq(_)
SumSeq(seq) == IF seq = <<>> THEN 0 ELSE seq[1] + SumSeq(Tail(seq))

\* a file of the given layout whose header and footer checksums are right;
\* the trailing checksum of the i-th page-list envelope is off by d[i]
FileOfLayout(layout, extension, d) ==
    LET payload == <<2, 5, 6>>
        h == Envelope(payload, crc32(payload))
        clusters == [i \in 1..SumSeq(layout) |-> 2 + i]
        groups == [i \in 1..Len(layout) |->
                     [num_clusters |-> layout[i], page_list_link |-> i]]
        fp == FooterPayload(crc32(payload), extension, clusters, groups)
    IN [ header |-> h, footer |-> Envelope(fp, crc32(fp)),
         page_lists |->
           [i \in 1..Len(layout) |->
              PageListEnvelope(
                PageListsOf(SumSeq(SubSeq(layout, 1, i - 1)), layout[i]),
                d[i])] ]

\* files that differ in their cluster groups and page-list checksums
PageListFiles ==
    UNION { { FileOfLayout(layout, NoExtension, d) :
                d \in [1..Len(layout) -> {0, 1}] } : layout \in GroupLayouts }

\* schema extensions: a top-level field (its own parent, the header has one
\* field) with a column, and a field nested in the header's field
Extensions ==
    { [field_records |-> <<16 * 1 + 3>>, column_records |-> <<7>>],
      [field_records |-> <<16 * 0 + 4>>, column_records |-> <<8>>] }

\* files whose footer extends the header's schema
ExtensionFiles ==
    { FileOfLayout(layout, extension, [i \in 1..Len(layout) |-> 0]) :
        layout \in {<<1>>, <<2>>}, extension \in Extensions }

\* the files
Sources == ChecksumFiles \cup PageListFiles \cup ExtensionFiles

\* no tree is written in a reader's run
NoTree ==
    /\ basket_capacity = 0
    /\ resize_factor = [num |-> 1, den |-> 1]
    /\ branch_data = <<>>
    /\ num_entries = 0
    /\ num_baskets = 0
    /\ metadata = [fTotBytes |-> 0, fZipBytes |-> 0]
    /\ key = [location |-> 0, num_bytes |-> 0, compressed_bytes |-> 0]
    /\ freesegments = [end |-> 0, free |-> {}, calls |-> <<>>]
    /\ metadata_start = 0
    /\ sink_log = <<>>
    /\ moved = <<>>
    /\ call_order = <<>>
    /\ outcome = "new"
    /\ ncalls = 0
    /\ nfailed = 0

InitRNT ==
    /\ source \in Sources
    /\ rntuple = read_members
    /\ rnt_call = "-"
    /\ NoTree
    /\ decode_call = "-"
    /\ decode_in = None
    /\ decode_out = None

\* the object as a call finds it
Entered == [rntuple EXCEPT !.err = "", !.ret = None, !.events = <<>>]

Header ==
    /\ rntuple' = header(Entered, source)
    /\ rnt_call' = "header"
    /\ UNCHANGED <<source, tree_vars, decode_vars>>

Footer ==
    /\ rntuple' = footer(Entered, source)
    /\ rnt_call' = "footer"
    /\ UNCHANGED <<source, tree_vars, decode_vars>>

Keys ==
    /\ rntuple' = keys(Entered, source)
    /\ rnt_call' = "keys"
    /\ UNCHANGED <<source, tree_vars, decode_vars>>

ToAkform ==
    /\ rntuple' = to_akform(Entered, source)
    /\ rnt_call' = "to_akform"
    /\ UNCHANGED <<source, tree_vars, decode_vars>>

Arrays ==
    /\ rntuple' = arrays(Entered, source)
    /\ rnt_call' = "arrays"
    /\ UNCHANGED <<source, tree_vars, decode_vars>>

NextRNT == Header \/ Footer \/ Keys \/ ToAkform \/ Arrays

SpecRNT == InitRNT /\ [][NextRNT]_vars

\* ==================================== the RNTuple reader: decoding columns
\* A value of a fixed width is its bytes, the least significant first: a word.
\* --------------------------------------------------------------- words
ZeroWord(nbytes) == [i \in 1..nbytes |-> 0]

\* the word of nbytes bytes of a number from 0 up
RECURSIVE WordOfNat(_, _)
WordOfNat(n, nbytes) ==
    IF nbytes = 0 THEN <<>>
    ELSE <<n % 256>> \o WordOfNat(n \div 256, nbytes - 1)

\* the number a word stands for as an unsigned value (of a word whose value
\* is below 2^31)
RECURSIVE NatOfWord(_)
NatOfWord(word) ==
    IF \A i \in 1..Len(word) : word[i] = 0 THEN 0
    ELSE word[1] + 256 * NatOfWord(Tail(word))

\* (Below, an operand that is used more than once is first bound to its
\* value, as v \in {operand}, so that it is computed once.)

\* bit k of a byte, and a & b and a ^ b of two bytes, bit by bit
Bit(a, k) == (a \div (2 ^ k)) % 2
RECURSIVE And8From(_, _, _)
And8From(a, b, k) ==
    IF k = 8 THEN 0
    ELSE Bit(a, k) * Bit(b, k) * (2 ^ k) + And8From(a, b, k + 1)
And8(a, b) == And8From(a, b, 0)
RECURSIVE Xor8From(_, _, _)
Xor8From(a, b, k) ==
    IF k = 8 THEN 0
    ELSE ((Bit(a, k) + Bit(b, k)) % 2) * (2 ^ k) + Xor8From(a, b, k + 1)
Xor8(a, b) == Xor8From(a, b, 0)

\* x & y and x ^ y of two words of one width
WordAnd(x, y) ==
    CHOOSE r \in { [i \in 1..Len(xv) |-> And8(xv[i], yv[i])] \o <<>> :
                     xv \in {x}, yv \in {y} } : TRUE
WordXor(x, y) ==
    CHOOSE r \in { [i \in 1..Len(xv) |-> Xor8(xv[i], yv[i])] \o <<>> :
                     xv \in {x}, yv \in {y} } : TRUE

\* the top bit of a word
SignBit(x) == x[Len(x)] \div 128

\* the i-th byte of a word extended upwards with a fill byte
ExtendedByte(x, i, fill) == IF i <= Len(x) THEN x[i] ELSE fill

\* x >> k on an array of a signed dtype (the sign bit is copied in) or of
\* an unsigned one (zeros are shifted in)
ShiftRight(x, k, signed) ==
    CHOOSE r \in
      { LET fill == IF signed /\ SignBit(xv) = 1 THEN 255 ELSE 0
            q == k \div 8
            s == k % 8
        IN [i \in 1..Len(xv) |->
              (ExtendedByte(xv, i + q, fill) \div (2 ^ s))
                + (ExtendedByte(xv, i + q + 1, fill) % (2 ^ s)) * (2 ^ (8 - s))]
           \o <<>> : xv \in {x} } : TRUE

\* x << 1 within the width
ShiftLeft1(x) ==
    CHOOSE r \in
      { [i \in 1..Len(xv) |->
           ((xv[i] * 2) % 256) + (IF i > 1 THEN xv[i - 1] \div 128 ELSE 0)]
        \o <<>> : xv \in {x} } : TRUE

\* x + y within the width, from the i-th byte on
RECURSIVE AddFrom(_, _, _, _)
AddFrom(x, y, i, carry) ==
    IF i > Len(x) THEN <<>>
    ELSE CHOOSE r \in { <<s % 256>> \o AddFrom(x, y, i + 1, s \div 256) :
                          s \in {x[i] + y[i] + carry} } : TRUE
WordAdd(x, y) ==
    CHOOSE r \in { AddFrom(xv, yv, 1, 0) : xv \in {x}, yv \in {y} } : TRUE

\* -x within the width: the complement plus one
WordNeg(x) ==
    CHOOSE r \in
      { WordAdd([i \in 1..Len(xv) |-> 255 - xv[i]], WordOfNat(1, Len(xv))) :
          xv \in {x} } : TRUE

\* x <= y for unsigned words of one width
RECURSIVE WordLeqFrom(_, _, _)
WordLeqFrom(x, y, i) ==
    IF i = 0 THEN TRUE
    ELSE IF x[i] # y[i] THEN x[i] < y[i]
    ELSE WordLeqFrom(x, y, i - 1)
WordLeq(x, y) == WordLeqFrom(x, y, Len(x))

\* the concatenation of a sequence of sequences, from the i-th on
RECURSIVE ConcatFrom(_, _)
ConcatFrom(seqs, i) ==
    IF i > Len(seqs) THEN <<>> ELSE seqs[i] \o ConcatFrom(seqs, i + 1)
Concat(seqs) == CHOOSE r \in { ConcatFrom(v, 1) : v \in {seqs} } : TRUE

\* ------------------------------------------------ the column type tables
\* uproot.const.rntuple_col_type_to_num_dict
col_type_index32 == 2
col_type_switch == 3

\* uproot.const.rntuple_col_num_to_size_dict, for the integer column types
rntuple_col_num_to_size_dict(dtype_byte) ==
    IF dtype_byte \in {1, 3, 10, 14, 19, 22, 26} THEN 64
    ELSE IF dtype_byte \in {2, 11, 15, 20, 23, 27} THEN 32
    ELSE IF dtype_byte \in {12, 21, 24, 28} THEN 16
    ELSE 8

\* uproot.const.rntuple_col_num_to_dtype_dict: the integer column types
\* whose dtype is signed
dtype_is_signed(dtype_byte) == dtype_byte \in 22..28

\* ---------------------------------------------------------- from_zigzag
\* from_zigzag(n): n >> 1 ^ -(n & 1), that is (n >> 1) ^ (-(n & 1)), on an
\* element of an array of a signed or an unsigned dtype
from_zigzag(n, signed) ==
    WordXor(ShiftRight(n, 1, signed),
            WordNeg(WordAnd(n, WordOfNat(1, Len(n)))))

\* ------------------------------------------------------- read_pagedesc
\* a variant of unsplit that leaves the bytes in the order of the page
unsplit_unchanged(content, w) == content

\* res[j::w] = content[len(res) * j // w : len(res) * (j + 1) // w] for the
\* lanes from j on
RECURSIVE unsplit_lanes(_, _, _, _)
unsplit_lanes(res, content, j, w) ==
    IF j = w THEN res
    ELSE The({ unsplit_lanes(r, content, j + 1, w) :
                 r \in { [p \in 1..Len(res) |->
                            IF (p - 1) % w = j
                            THEN content[(Len(res) * j) \div w
                                           + ((p - 1) \div w) + 1]
                            ELSE res[p]] \o <<>> } })

\* the bytes of a split page in the order of the elements: res is
\* numpy.empty(len(content)), every byte of which is assigned in one of the
\* w strided assignments
unsplit(content, w) ==
    The({ unsplit_lanes(Zeros(Len(v)), v, 0, w) : v \in {content} })

\* read_pagedesc for a column that is not of bits: the num_elements elements
\* of a page, un-split where the column's type is split
read_pagedesc(num_elements, desc, nbits, split) ==
    LET w == nbits \div 8
        content == SubSeq(desc.bytes, 1, num_elements * w)
        res == IF split THEN unsplit(content, w) ELSE content
    IN [k \in 1..num_elements |-> SubSeq(res, (k - 1) * w + 1, k * w)]

\* ------------------------------------------------------- read_col_page
\* numpy.cumsum of an array of words
RECURSIVE cumsum_from(_, _, _)
cumsum_from(res, i, total) ==
    IF i > Len(res) THEN <<>>
    ELSE CHOOSE r \in { <<t>> \o cumsum_from(res, i + 1, t) :
                          t \in {WordAdd(total, res[i])} } : TRUE
cumsum(res) ==
    CHOOSE r \in { IF v = <<>> THEN <<>>
                   ELSE cumsum_from(v, 1, ZeroWord(Len(v[1]))) :
                     v \in {res} } : TRUE

\* the loop of read_col_page over the pages of a page list
read_pages(pagelist, nbits, split) ==
    Concat([i \in 1..Len(pagelist) |->
              read_pagedesc(pagelist[i].num_elements, pagelist[i], nbits,
                            split)])

\* read_col_page: the decoded elements of column ncol in cluster cluster_i
read_col_page(pagelinklist, column_records, ncol, cluster_i) ==
    LET linklist == At(pagelinklist, cluster_i)
        pagelist == At(linklist, ncol)
        dtype_byte == At(column_records, ncol)
        split == dtype_byte \in 14..21 \/ dtype_byte \in 26..28
        nbits == rntuple_col_num_to_size_dict(dtype_byte)
        zigzag == dtype_byte \in 26..28
        delta == dtype_byte \in 14..15
    IN IF pagelist = <<>> THEN <<>>
       ELSE CHOOSE r \in
         { LET res == IF dtype_byte <= col_type_index32
                      THEN <<ZeroWord(nbits \div 8)>> \o pages ELSE pages
           IN IF zigzag
              THEN [i \in 1..Len(res) |->
                      from_zigzag(res[i], dtype_is_signed(dtype_byte))] \o <<>>
              ELSE IF delta
              THEN LET unused == cumsum(res) IN res
              ELSE res :
             pages \in {read_pages(pagelist, nbits, split)} } : TRUE

\* read_col_pages: the concatenation of read_col_page over the clusters
\* first .. last - 1; numpy.concatenate refuses an empty list
read_col_pages_of(pagelinklist, column_records, ncol, first, last) ==
    IF first >= last THEN [err |-> "ValueError", buffer |-> <<>>]
    ELSE [err |-> "",
          buffer |-> Concat([c \in 1..(last - first) |->
                               read_col_page(pagelinklist, column_records,
                                             ncol, first + c - 1)])]

\* --------------------------------------------------- _split_switch_bits
\* the mask numpy.int64(0x00000000000FFFFF)
switch_index_mask == WordOfNat(1048575, 8)

\* x.astype("int8"): the low byte as a signed value, and int8 - 1
astype_int8(x) == IF x[1] >= 128 THEN x[1] - 256 ELSE x[1]
int8_minus_1(v) == IF v = -128 THEN 127 ELSE v - 1

\* _split_switch_bits on one element of a switch column
split_switch_bits(content) ==
    [ kindex |-> WordAnd(content, switch_index_mask),
      tags |-> int8_minus_1(astype_int8(
                 ShiftRight(content, 44, dtype_is_signed(col_type_switch)))) ]

\* ------------------------------------------------ FieldRecordReader.read
\* the bytes start .. stop of a chunk, as far as the chunk has them
chunk_get(raw, start, stop) ==
    IF start > Len(raw) THEN <<>>
    ELSE SubSeq(raw, start, IF stop > Len(raw) THEN Len(raw) ELSE stop)

\* cursor.rntuple_string at a cursor (counted from 1): a u32 length, then
\* that many bytes
rntuple_string(raw, cursor) ==
    LET length == NatOfWord(chunk_get(raw, cursor, cursor + 3))
    IN [ value |-> chunk_get(raw, cursor + 4, cursor + 3 + length),
         cursor |-> cursor + 4 + length ]

\* FieldRecordReader.read
FieldRecordReader_read(raw) ==
    LET flags == NatOfWord(SubSeq(raw, 15, 16))
        repetition == IF flags = 1 THEN NatOfWord(chunk_get(raw, 17, 24)) ELSE 0
        cursor == IF flags = 1 THEN 25 ELSE 17
        s1 == rntuple_string(raw, cursor)
        s2 == rntuple_string(raw, s1.cursor)
        s3 == rntuple_string(raw, s2.cursor)
        s4 == rntuple_string(raw, s3.cursor)
    IN [ field_version |-> NatOfWord(SubSeq(raw, 1, 4)),
         type_version |-> NatOfWord(SubSeq(raw, 5, 8)),
         parent_field_id |-> NatOfWord(SubSeq(raw, 9, 12)),
         struct_role |-> NatOfWord(SubSeq(raw, 13, 14)),
         flags |-> flags,
         repetition |-> repetition,
         strings_at |-> cursor,
         field_name |-> s1.value,
         type_name |-> s2.value,
         type_alias |-> s3.value,
         field_desc |-> s4.value,
         cursor |-> s4.cursor ]

\* ---------------------------------------------------------- list frames
\* The readers of list frames on the bytes of a chunk. A cursor is the
\* position of the next byte, counted from 1. A read returns its value, the
\* cursor it was given as the read leaves it, and the exception it raised.

\* struct "<i": a signed value of four bytes
Int32OfWord(x) ==
    IF SignBit(x) = 1 THEN 0 - NatOfWord(WordNeg(x)) ELSE NatOfWord(x)

\* the sizes of _rntuple_frame_header ("<ii"), of a page description ("<I"
\* and a locator "<iQ") and of the envelope header
rntuple_frame_header_size == 8
page_description_size == 16
envelop_header_size == 4

\* cursor.fields(chunk, _rntuple_frame_header): num_bytes and the item count
frame_header(chunk, cursor) ==
    [ num_bytes |-> Int32OfWord(SubSeq(chunk, cursor, cursor + 3)),
      num_items |-> Int32OfWord(SubSeq(chunk, cursor + 4, cursor + 7)) ]

\* PageDescription.read: num_elements and the locator
PageDescription_read(chunk, cursor) ==
    [ value |-> [ num_elements |-> NatOfWord(SubSeq(chunk, cursor, cursor + 3)),
                  locator |-> SubSeq(chunk, cursor + 4, cursor + 15) ],
      cursor |-> cursor + page_description_size,
      reads |-> 0,
      err |-> "" ]

\* the readers a list frame's payload is read with, outermost first:
\* ListFrameReader(ListFrameReader(PageLinkInner())) is
\* <<"ListFrameReader", "ListFrameReader", "PageLinkInner">>
RECURSIVE payload_read(_, _, _)
RECURSIVE read_items(_, _, _, _, _)

\* [payload.read(chunk, local_cursor, context) for _ in range(num_items)]
read_items(payload, chunk, local_cursor, n, items) ==
    IF n <= 0 THEN [items |-> items, cursor |-> local_cursor, err |-> ""]
    ELSE The({ IF r.err # ""
               THEN [items |-> items, cursor |-> r.cursor, err |-> r.err]
               ELSE read_items(payload, chunk, r.cursor, n - 1,
                               Append(items, r.value)) :
                 r \in {payload_read(payload, chunk, local_cursor)} })

\* ListFrameReader.read and PageLinkInner.read: the header is read through
\* a copy of the cursor, num_bytes is asserted negative, the cursor skips
\* -num_bytes, and the payloads are read through the copy
list_frame_read(payload, chunk, cursor) ==
    The({ IF ~ (h.num_bytes < 0)
          THEN [value |-> <<>>, cursor |-> cursor, reads |-> 0,
                err |-> "AssertionError"]
          ELSE The({ [value |-> r.items, cursor |-> cursor - h.num_bytes,
                      reads |-> Len(r.items), err |-> r.err] :
                       r \in {read_items(payload, chunk,
                                         cursor + rntuple_frame_header_size,
                                         h.num_items, <<>>)} }) :
            h \in {frame_header(chunk, cursor)} })

payload_read(payload, chunk, cursor) ==
    CASE Head(payload) = "ListFrameReader" ->
           list_frame_read(Tail(payload), chunk, cursor)
      [] Head(payload) = "PageLinkInner" ->
           list_frame_read(<<"PageDescription">>, chunk, cursor)
      [] Head(payload) = "PageDescription" ->
           PageDescription_read(chunk, cursor)

\* PageLink.read on the bytes of a page-list envelope: the envelope header,
\* the header of the top-most list read through the cursor itself, nothing
\* more for a list of no items, else the list read through a copy by
\* ListFrameReader(ListFrameReader(PageLinkInner())), the skip of
\* -num_bytes - 8 and the comparison of the trailing checksum. The cursor
\* returned is the one after the list, before the checksum is read
PageLink_read_frames(chunk, cursor) ==
    LET local_cursor == cursor + envelop_header_size
        after_header == local_cursor + rntuple_frame_header_size
    IN The({
      IF h.num_items = 0
      THEN [value |-> <<>>, cursor |-> after_header, reads |-> 0, err |-> ""]
      ELSE The({
        IF r.err # "" THEN [r EXCEPT !.cursor = after_header]
        ELSE IF crc32(AllButLast4(chunk))
                  # NatOfWord(SubSeq(chunk, after_header - h.num_bytes - 8,
                                     after_header - h.num_bytes - 5))
        THEN [r EXCEPT !.cursor = after_header - h.num_bytes - 8,
                       !.err = "AssertionError"]
        ELSE [r EXCEPT !.cursor = after_header - h.num_bytes - 8] :
          r \in {list_frame_read(<<"ListFrameReader", "PageLinkInner">>,
                                 chunk, local_cursor)} }) :
      h \in {frame_header(chunk, local_cursor)} })

\* ------------------------------------------------------ the form of fields
\* uproot.const.rntuple_role_leaf, _vector, _struct and _union
rntuple_role_leaf == "leaf"
rntuple_role_vector == "vector"
rntuple_role_struct == "struct"
rntuple_role_union == "union"

\* x in a list
InList(x, list) == \E k \in 1..Len(list) : list[k] = x

\* _keys over field records: the names of the records whose parent_field_id
\* is their own index, from the i-th on
RECURSIVE keys_from(_, _)
keys_from(field_records, i) ==
    IF i >= Len(field_records) THEN <<>>
    ELSE (IF At(field_records, i).parent_field_id = i
          THEN <<At(field_records, i).field_name>> ELSE <<>>)
         \o keys_from(field_records, i + 1)
_keys(field_records) == keys_from(field_records, 0)

\* the column records col_form looks at: those of the field, up to the first
\* record of a later field
RECURSIVE rel_crs_idxs(_, _, _)
rel_crs_idxs(column_records, field_id, i) ==
    IF i >= Len(column_records) THEN <<>>
    ELSE (IF At(column_records, i).field_id = field_id THEN <<i>> ELSE <<>>)
         \o (IF At(column_records, i).field_id > field_id THEN <<>>
             ELSE rel_crs_idxs(column_records, field_id, i + 1))

\* col_form: the form of the one column of a field, or of the two columns
\* of a string, else an error
col_form(column_records, field_id) ==
    The({ IF Len(idxs) = 1
          THEN [form |-> [kind |-> "column", form_key |-> idxs[1]], err |-> ""]
          ELSE IF Len(idxs) = 2 /\ At(column_records, idxs[2]).type = "char"
          THEN [form |-> [kind |-> "string", form_key |-> idxs[1]], err |-> ""]
          ELSE [form |-> None, err |-> "RuntimeError"] :
            idxs \in {rel_crs_idxs(column_records, field_id, 0)} })

\* the fields a struct or union visits: those not seen whose parent is
\* this_id, from the i-th on
RECURSIVE newids_from(_, _, _, _)
newids_from(field_records, this_id, seen, i) ==
    IF i >= Len(field_records) THEN <<>>
    ELSE (IF ~ InList(i, seen) /\ At(field_records, i).parent_field_id = this_id
          THEN <<i>> ELSE <<>>)
         \o newids_from(field_records, this_id, seen, i + 1)

\* next(filter(...)) of a list or fixed-size array: the first field after
\* this_id whose parent is this_id; -1 stands for none
child_id_of(field_records, this_id) ==
    LET later == { i \in (this_id + 1)..(Len(field_records) - 1) :
                     At(field_records, i).parent_field_id = this_id }
    IN IF later = {} THEN -1
       ELSE CHOOSE i \in later : \A j \in later : i <= j

\* field_form(this_id, seen): the form of a field and of the fields below
\* it; seen is the list of the fields visited, in the order of the visits
RECURSIVE field_form(_, _, _, _)
RECURSIVE field_forms(_, _, _, _, _)
field_forms(field_records, column_records, ids, seen, recordlist) ==
    IF ids = <<>> THEN [forms |-> recordlist, seen |-> seen, err |-> ""]
    ELSE The({ IF r.err # ""
               THEN [forms |-> recordlist, seen |-> r.seen, err |-> r.err]
               ELSE field_forms(field_records, column_records, Tail(ids),
                                r.seen, Append(recordlist, r.form)) :
                 r \in {field_form(field_records, column_records, Head(ids),
                                   seen)} })

\* the form of the one field below a list or a fixed-size array
inner_form(field_records, column_records, this_id, seen) ==
    The({ IF child_id = -1
          THEN [form |-> None, seen |-> seen, err |-> "StopIteration"]
          ELSE field_form(field_records, column_records, child_id, seen) :
            child_id \in {child_id_of(field_records, this_id)} })

field_form(field_records, column_records, this_id, seen0) ==
    LET this_record == At(field_records, this_id)
        seen == Append(seen0, this_id)
        structural_role == this_record.struct_role
    IN CASE structural_role = rntuple_role_leaf /\ this_record.repetition = 0 ->
              The({ [form |-> c.form, seen |-> seen, err |-> c.err] :
                      c \in {col_form(column_records, this_id)} })
         [] structural_role = rntuple_role_leaf /\ this_record.repetition # 0 ->
              The({ IF r.err # "" THEN r
                    ELSE [r EXCEPT !.form = [kind |-> "RegularForm",
                                             content |-> r.form,
                                             size |-> this_record.repetition]] :
                      r \in {inner_form(field_records, column_records, this_id,
                                        seen)} })
         [] structural_role = rntuple_role_vector ->
              The({ IF keyname.err # ""
                    THEN [form |-> None, seen |-> seen, err |-> keyname.err]
                    ELSE The({ IF r.err # "" THEN r
                               ELSE [r EXCEPT !.form = [kind |-> "ListOffsetForm",
                                                        content |-> r.form,
                                                        form_key |-> keyname.form]] :
                                 r \in {inner_form(field_records, column_records,
                                                   this_id, seen)} }) :
                      keyname \in {col_form(column_records, this_id)} })
         [] structural_role = rntuple_role_struct ->
              The({ The({ IF r.err # ""
                          THEN [form |-> None, seen |-> r.seen, err |-> r.err]
                          ELSE [form |-> [kind |-> "RecordForm",
                                          contents |-> r.forms,
                                          fields |-> [k \in 1..Len(newids) |->
                                                        At(field_records, newids[k]).field_name]],
                                seen |-> r.seen, err |-> ""] :
                            r \in {field_forms(field_records, column_records,
                                               newids, seen, <<>>)} }) :
                      newids \in {newids_from(field_records, this_id, seen, 0)} })
         [] structural_role = rntuple_role_union ->
              The({ IF keyname.err # ""
                    THEN [form |-> None, seen |-> seen, err |-> keyname.err]
                    ELSE The({ IF r.err # ""
                               THEN [form |-> None, seen |-> r.seen, err |-> r.err]
                               ELSE [form |-> [kind |-> "UnionForm",
                                               contents |-> r.forms,
                                               form_key |-> keyname.form],
                                     seen |-> r.seen, err |-> ""] :
                                 r \in {field_forms(
                                          field_records, column_records,
                                          newids_from(field_records, this_id,
                                                      seen, 0),
                                          seen, <<>>)} }) :
                      keyname \in {col_form(column_records, this_id)} })
         [] OTHER -> [form |-> None, seen |-> seen, err |-> "AssertionError"]

\* a variant of the loop of to_akform that takes the form of every field,
\* seen or not
RECURSIVE to_akform_every_field(_, _, _, _, _)
to_akform_every_field(field_records, column_records, i, seen, recordlist) ==
    IF i >= Len(field_records)
    THEN [recordlist |-> recordlist, seen |-> seen, err |-> ""]
    ELSE The({ IF r.err # ""
               THEN [recordlist |-> recordlist, seen |-> r.seen, err |-> r.err]
               ELSE to_akform_every_field(field_records, column_records, i + 1,
                                          r.seen, Append(recordlist, r.form)) :
                 r \in {field_form(field_records, column_records, i, seen)} })

\* the loop of to_akform from the i-th field on: the form of every field
\* not seen yet is appended to recordlist
RECURSIVE to_akform_loop(_, _, _, _, _)
to_akform_loop(field_records, column_records, i, seen, recordlist) ==
    IF i >= Len(field_records)
    THEN [recordlist |-> recordlist, seen |-> seen, err |-> ""]
    ELSE IF InList(i, seen)
    THEN to_akform_loop(field_records, column_records, i + 1, seen, recordlist)
    ELSE The({ IF r.err # ""
               THEN [recordlist |-> recordlist, seen |-> r.seen, err |-> r.err]
               ELSE to_akform_loop(field_records, column_records, i + 1,
                                   r.seen, Append(recordlist, r.form)) :
                 r \in {field_form(field_records, column_records, i, seen)} })

\* to_akform over field and column records: the top-level record of the
\* forms and of the names of keys(), with the fields visited
to_akform_record(field_records, column_records) ==
    The({ [form |-> [kind |-> "RecordForm", contents |-> r.recordlist,
                     fields |-> _keys(field_records), form_key |-> "toplevel"],
           seen |-> r.seen, err |-> r.err] :
            r \in {to_akform_loop(field_records, column_records, 0, <<>>, <<>>)} })

\* ------------------------------------------------- the entries of arrays
\* _length: the sum of the clusters' numbers of entries
RECURSIVE length_from(_, _)
length_from(cluster_summaries, i) ==
    IF i > Len(cluster_summaries) THEN 0
    ELSE cluster_summaries[i].num_entries + length_from(cluster_summaries, i + 1)
_length(cluster_summaries) == length_from(cluster_summaries, 1)

\* numpy.searchsorted(a, v, side="right") on a sorted array: the number of
\* its elements that are at most v
searchsorted_right(a, v) == Cardinality({ k \in 1..Len(a) : a[k] <= v })

\* the entries a column holds for a cluster, as their numbers in the tree
cluster_entries(c) ==
    [ k \in 1..c.num_entries |-> c.num_first_entry + k - 1 ]

\* read_col_pages over range(start, stop): the entries of the clusters of
\* the range, in order
RECURSIVE range_entries(_, _, _)
range_entries(cluster_summaries, i, stop) ==
    IF i >= stop THEN <<>>
    ELSE cluster_entries(At(cluster_summaries, i))
         \o range_entries(cluster_summaries, i + 1, stop)

\* array[start:stop] for 0 <= start
Slice(array, start, stop) ==
    SubSeq(array, start + 1, IF stop < Len(array) THEN stop ELSE Len(array))

\* arrays(entry_start=..., entry_stop=...): entry_stop or _length, the range
\* of clusters by searchsorted, the columns of those clusters and the slice
\* of their entries
arrays_range(cluster_summaries, entry_start, entry_stop0) ==
    LET entry_stop == IF entry_stop0 = 0
                      THEN _length(cluster_summaries) ELSE entry_stop0
        cluster_starts == [ k \in 1..Len(cluster_summaries) |->
                              cluster_summaries[k].num_first_entry ]
        start_cluster_idx == searchsorted_right(cluster_starts, entry_start) - 1
        stop_cluster_idx == searchsorted_right(cluster_starts, entry_stop)
    IN IF ~ InBounds(cluster_starts, start_cluster_idx)
       THEN [ err |-> "IndexError", entries |-> <<>>,
              start_cluster_idx |-> start_cluster_idx,
              stop_cluster_idx |-> stop_cluster_idx ]
       ELSE The({ [ err |-> "",
                    entries |-> Slice(content,
                                      entry_start - At(cluster_starts, start_cluster_idx),
                                      entry_stop - At(cluster_starts, start_cluster_idx)),
                    start_cluster_idx |-> start_cluster_idx,
                    stop_cluster_idx |-> stop_cluster_idx ] :
                    content \in {range_entries(cluster_summaries,
                                               start_cluster_idx,
                                               stop_cluster_idx)} })

\* ------------------------------------------- columns, words and records
\* the clusters of a column, the pages of a page list and the elements of a
\* page, at most
MaxClusters == 2
MaxPages == 2
MaxElements == 2

\* the values of the elements on disk
ElementValues == {1, 2}

\* the bytes of a split page: byte j of element k goes to j * N + k
split_bytes(bytes, w) ==
    LET N == Len(bytes) \div w
    IN [q \in 1..Len(bytes) |->
          bytes[((q - 1) % N) * w + ((q - 1) \div N) + 1]]

\* the page of a column of the given type that holds the given values
PageOf(values, dtype_byte) ==
    LET w == rntuple_col_num_to_size_dict(dtype_byte) \div 8
        bytes == Concat([i \in 1..Len(values) |-> WordOfNat(values[i], w)])
    IN [ num_elements |-> Len(values),
         bytes |-> IF dtype_byte \in 14..21 \/ dtype_byte \in 26..28
                   THEN split_bytes(bytes, w) ELSE bytes ]

\* the values of the pages of one cluster: every page has an element, and
\* the values do not decrease through the cluster
NonDecreasing(values) ==
    \A i \in 1..(Len(values) - 1) : values[i] <= values[i + 1]
PageValues == UNION { [1..n -> ElementValues] : n \in 1..MaxElements }
ClusterValues ==
    { pages \in UNION { [1..n -> PageValues] : n \in 0..MaxPages } :
        NonDecreasing(Concat(pages)) }

\* the columns' values: those of one to MaxClusters clusters
ColumnValues == UNION { [1..n -> ClusterValues] : n \in 1..MaxClusters }

\* the column types that are decoded: index64, index32, the two delta
\* types and two of the zig-zag types
ColumnTypes == {1, 2, 14, 15, 26, 28}

\* the page directory of a file of one column with the given values
DirectoryOf(clusters, dtype_byte) ==
    [c \in 1..Len(clusters) |->
       << [p \in 1..Len(clusters[c]) |-> PageOf(clusters[c][p], dtype_byte)] >>]

\* (x << 1) ^ (x >> (width - 1)) of a signed word: the encoding that
\* from_zigzag reverses
zigzag_encode(x) ==
    WordXor(ShiftLeft1(x), ShiftRight(x, 8 * Len(x) - 1, TRUE))

\* signed values of a width: the lowest and the highest byte are taken from
\* the bytes below, the bytes between are all 0 or all 255
EdgeBytes == {0, 1, 2, 63, 64, 127, 128, 129, 191, 192, 254, 255}
SignedWords(nbytes) ==
    { [i \in 1..nbytes |-> IF i = 1 THEN lo ELSE IF i = nbytes THEN hi ELSE mid] :
        lo \in EdgeBytes, hi \in EdgeBytes, mid \in {0, 255} }

\* the elements of a switch column: bytes 1 to 3 hold the low 20 bits and
\* bits 20 to 23, byte 6 bits 40 to 47, bytes 7 and 8 the highest 16 bits
SwitchWords ==
    { <<b1, 0, b3, 0, 0, b6, b7, b8>> :
        b1 \in {0, 7}, b3 \in {0, 3, 19}, b6 \in {0, 16, 32, 129},
        b7 \in {0, 7, 8, 16}, b8 \in {0, 1, 128} }

\* a length-prefixed string
StringBytes(str) == WordOfNat(Len(str), 4) \o str

\* the bytes of a field record: the repetition is present when bit 0 of
\* the flags is set
FieldRecordBytes(r) ==
    WordOfNat(r.field_version, 4) \o WordOfNat(r.type_version, 4)
      \o WordOfNat(r.parent_field_id, 4) \o WordOfNat(r.struct_role, 2)
      \o WordOfNat(r.flags, 2)
      \o (IF r.flags % 2 = 1 THEN WordOfNat(r.repetition, 8) ELSE <<>>)
      \o StringBytes(r.field_name) \o StringBytes(r.type_name)
      \o StringBytes(r.type_alias) \o StringBytes(r.field_desc)

\* field records: leaves and fixed-size arrays, with other flag bits set or
\* not
FieldRecords ==
    { [ field_version |-> 0, type_version |-> 0, parent_field_id |-> parent,
        struct_role |-> 0, flags |-> flags,
        repetition |-> IF flags % 2 = 1 THEN repetition ELSE 0,
        field_name |-> name, type_name |-> <<9>>, type_alias |-> <<>>,
        field_desc |-> <<>> ] :
        parent \in {0, 1}, flags \in {0, 1, 2, 3, 5}, repetition \in {2, 3},
        name \in {<<7>>, <<7, 8>>} }

\* --------------------------------------------- the decoding state machine
\* what is decoded: a file of one column, a signed value of a zig-zag
\* column, an element of a switch column, or the bytes of a field record
ColumnInputs ==
    { [ kind |-> "column", dtype_byte |-> dtype_byte,
        pagelinklist |-> DirectoryOf(clusters, dtype_byte) ] :
        dtype_byte \in ColumnTypes, clusters \in ColumnValues }
ZigzagInputs ==
    UNION { { [ kind |-> "zigzag", dtype_byte |-> dtype_byte, x |-> x,
                encoded |-> zigzag_encode(x) ] :
              x \in SignedWords(rntuple_col_num_to_size_dict(dtype_byte) \div 8) } :
            dtype_byte \in 26..28 }
SwitchInputs == { [kind |-> "switch", content |-> w] : w \in SwitchWords }
FieldRecordInputs ==
    { [kind |-> "field_record", record |-> r, raw |-> FieldRecordBytes(r)] :
        r \in FieldRecords }

\* pages of 1 to MaxElements + 1 elements of 16, 32 or 64 bits, of a split
\* column type or not, whose bytes all differ
PageInputs ==
    { [ kind |-> "page", nbits |-> nbits, split |-> split,
        desc |-> [ num_elements |-> n,
                   bytes |-> [q \in 1..(n * (nbits \div 8)) |->
                                IF up THEN q ELSE 200 - 3 * q] ] ] :
        nbits \in {16, 32, 64}, split \in BOOLEAN,
        n \in 1..(MaxElements + 1), up \in BOOLEAN }

\* the bytes of a signed value of four bytes and of a page description
I32Bytes(n) == IF n >= 0 THEN WordOfNat(n, 4) ELSE WordNeg(WordOfNat(0 - n, 4))
PageDescriptionBytes(e) == WordOfNat(e, 4) \o I32Bytes(5) \o WordOfNat(7, 8)

\* the bytes a frame may hold after its items, and the bytes before a frame
FramePads == {0, 4}
FramePrefixes == {0, 3}
\* the size headers: minus the frame's length, zero, the frame's length
FrameSigns == {-1, 0, 1}

\* the bytes of a list frame of the given items and pad bytes; its size
\* header is its length times the sign
FrameLength(items, pad) == rntuple_frame_header_size + Len(Concat(items)) + pad
FrameBytes(sign, items, pad) ==
    I32Bytes(sign * FrameLength(items, pad)) \o I32Bytes(Len(items))
      \o Concat(items) \o Zeros(pad)

\* the list of the pages of one column, of npages pages
InnerFrame(npages, pad) ==
    FrameBytes(-1, [i \in 1..npages |-> PageDescriptionBytes(i)], pad)

\* a frame in a chunk, for the reader that reads it: the frame starts at
\* start, its header holds size and count
FrameInput(reader, prefix, sign, items, pad) ==
    [ kind |-> "frame", reader |-> reader,
      chunk |-> Zeros(prefix) \o FrameBytes(sign, items, pad) \o Zeros(4),
      start |-> prefix + 1,
      size |-> sign * FrameLength(items, pad),
      count |-> Len(items) ]

\* a page-list envelope: the envelope header, the top-most list of the
\* clusters' lists of one column of one page, and the checksum of all that
PageListEnvelopeInput(sign, nclusters, pad) ==
    LET items == [c \in 1..nclusters |-> FrameBytes(-1, <<InnerFrame(1, 0)>>, 0)]
        body == <<1, 0, 1, 0>> \o FrameBytes(sign, items, pad)
    IN [ kind |-> "frame", reader |-> "PageLink",
         chunk |-> body \o pack_u32(crc32(body)),
         start |-> envelop_header_size + 1,
         size |-> sign * FrameLength(items, pad),
         count |-> nclusters ]

\* list frames for PageLinkInner, for ListFrameReader(PageLinkInner()) and
\* for PageLink: their size header is negative or not, and they hold as
\* many bytes as their items or more
FrameInputs ==
    { FrameInput("PageLinkInner", prefix, sign,
                 [i \in 1..n |-> PageDescriptionBytes(i)], pad) :
        prefix \in FramePrefixes, sign \in FrameSigns, n \in 0..MaxPages,
        pad \in FramePads }
    \cup
    { FrameInput("ListFrameReader", prefix, sign,
                 [i \in 1..n |-> InnerFrame(i, pad)], pad) :
        prefix \in FramePrefixes, sign \in FrameSigns, n \in 0..MaxPages,
        pad \in FramePads }
    \cup
    { PageListEnvelopeInput(sign, n, pad) :
        sign \in FrameSigns, n \in 0..MaxClusters, pad \in FramePads }

\* the fields of a forest, at most, and their names
MaxFields == 4
FieldNames == <<"a", "b", "c", "d", "e", "f">>

\* what a field is: a plain leaf, a fixed-size array (a leaf that repeats),
\* a collection, a struct or a union
FieldKinds ==
    { [struct_role |-> rntuple_role_leaf, repetition |-> 0],
      [struct_role |-> rntuple_role_leaf, repetition |-> 2],
      [struct_role |-> rntuple_role_vector, repetition |-> 0],
      [struct_role |-> rntuple_role_struct, repetition |-> 0],
      [struct_role |-> rntuple_role_union, repetition |-> 0] }

\* the fields below a field
ChildrenOf(field_records, i) ==
    { j \in 0..(Len(field_records) - 1) :
        j # i /\ At(field_records, j).parent_field_id = i }

\* the invariants of the data model: a field that is not at the top has a
\* parent of a smaller id, collections and fixed-size arrays have one field
\* below them, plain leaves none
DataModel(field_records) ==
    \A i \in 0..(Len(field_records) - 1) :
      LET fr == At(field_records, i)
          nchildren == Cardinality(ChildrenOf(field_records, i))
      IN /\ fr.parent_field_id <= i
         /\ (fr.struct_role = rntuple_role_vector => nchildren = 1)
         /\ (fr.struct_role = rntuple_role_leaf /\ fr.repetition # 0
               => nchildren = 1)
         /\ (fr.struct_role = rntuple_role_leaf /\ fr.repetition = 0
               => nchildren = 0)

\* the field records of n fields of the given parents and kinds
FieldRecordsOf(n, parents, kinds) ==
    [ i \in 1..n |->
        [ parent_field_id |-> parents[i], struct_role |-> kinds[i].struct_role,
          repetition |-> kinds[i].repetition, field_name |-> FieldNames[i] ] ]

\* the column records of a forest: one column for every plain leaf,
\* collection and union, in the order of the fields
RECURSIVE ColumnRecordsOf(_, _)
ColumnRecordsOf(field_records, i) ==
    IF i >= Len(field_records) THEN <<>>
    ELSE (IF At(field_records, i).struct_role = rntuple_role_struct
             \/ At(field_records, i).repetition # 0
          THEN <<>> ELSE <<[field_id |-> i, type |-> "int32"]>>)
         \o ColumnRecordsOf(field_records, i + 1)

\* the field forests that satisfy the invariants of the data model
ForestInputs ==
    UNION { { [ kind |-> "forest", field_records |-> frs,
                column_records |-> ColumnRecordsOf(frs, 0) ] :
                frs \in { f \in { FieldRecordsOf(n, parents, kinds) :
                                    parents \in { p \in [1..n -> 0..(n - 1)] :
                                                    \A i \in 1..n : p[i] <= i - 1 },
                                    kinds \in [1..n -> FieldKinds] } :
                            DataModel(f) } } :
            n \in 1..MaxFields }

\* the cluster summaries of clusters of the given numbers of entries: each
\* cluster starts where the one before it ends
ClusterSummariesOf(sizes) ==
    [ k \in 1..Len(sizes) |->
        [ num_first_entry |-> SumSeq(SubSeq(sizes, 1, k - 1)),
          num_entries |-> sizes[k] ] ]

\* entry ranges 0 <= entry_start <= entry_stop <= len(tree) of trees of one
\* cluster or more, each of one entry or more
EntryRangeInputs ==
    UNION { UNION { { [ kind |-> "entry_range",
                        cluster_summaries |-> ClusterSummariesOf(sizes),
                        entry_start |-> r[1], entry_stop |-> r[2] ] :
                        r \in { q \in (0..SumSeq(sizes)) \X (0..SumSeq(sizes)) :
                                  q[1] <= q[2] } } :
                    sizes \in [1..n -> 1..MaxElements] } :
            n \in 1..(MaxClusters + 1) }

InitDecode ==
    /\ decode_call = "-"
    /\ \/ decode_in \in ColumnInputs
       \/ decode_in \in ZigzagInputs
       \/ decode_in \in SwitchInputs
       \/ decode_in \in FieldRecordInputs
       \/ decode_in \in PageInputs
       \/ decode_in \in FrameInputs
       \/ decode_in \in ForestInputs
       \/ decode_in \in EntryRangeInputs
    /\ decode_out = None
    /\ source = NoSource
    /\ rntuple = None
    /\ rnt_call = "-"
    /\ NoTree

\* read_col_pages(ncol, range(first, last)) on a file of one column
ReadColPages ==
    /\ decode_in.kind = "column"
    /\ \E first \in 0..Len(decode_in.pagelinklist),
          last \in 0..Len(decode_in.pagelinklist) :
        /\ first <= last
        /\ decode_call' = "read_col_pages"
        /\ decode_out' =
             [ first |-> first, last |-> last,
               result |-> read_col_pages_of(decode_in.pagelinklist,
                                            <<decode_in.dtype_byte>>, 0,
                                            first, last) ]
    /\ UNCHANGED <<decode_in, tree_vars, rnt_vars>>

\* from_zigzag on the encoding of a signed value of a zig-zag column
FromZigzag ==
    /\ decode_in.kind = "zigzag"
    /\ decode_call' = "from_zigzag"
    /\ decode_out' = from_zigzag(decode_in.encoded,
                                 dtype_is_signed(decode_in.dtype_byte))
    /\ UNCHANGED <<decode_in, tree_vars, rnt_vars>>

\* _split_switch_bits on an element of a switch column
SplitSwitchBits ==
    /\ decode_in.kind = "switch"
    /\ decode_call' = "_split_switch_bits"
    /\ decode_out' = split_switch_bits(decode_in.content)
    /\ UNCHANGED <<decode_in, tree_vars, rnt_vars>>

\* FieldRecordReader.read on the bytes of a field record
ReadFieldRecord ==
    /\ decode_in.kind = "field_record"
    /\ decode_call' = "FieldRecordReader.read"
    /\ decode_out' = FieldRecordReader_read(decode_in.raw)
    /\ UNCHANGED <<decode_in, tree_vars, rnt_vars>>

\* read_pagedesc on a page
ReadPagedesc ==
    /\ decode_in.kind = "page"
    /\ decode_call' = "read_pagedesc"
    /\ decode_out' = read_pagedesc(decode_in.desc.num_elements, decode_in.desc,
                                   decode_in.nbits, decode_in.split)
    /\ UNCHANGED <<decode_in, tree_vars, rnt_vars>>

\* the read of a list frame by PageLinkInner, by
\* ListFrameReader(PageLinkInner()) or by PageLink
ReadListFrame ==
    /\ decode_in.kind = "frame"
    /\ decode_call' = "list_frame"
    /\ decode_out' =
         CASE decode_in.reader = "PageLinkInner" ->
                payload_read(<<"PageLinkInner">>, decode_in.chunk, decode_in.start)
           [] decode_in.reader = "ListFrameReader" ->
                payload_read(<<"ListFrameReader", "PageLinkInner">>,
                             decode_in.chunk, decode_in.start)
           [] decode_in.reader = "PageLink" ->
                PageLink_read_frames(decode_in.chunk, 1)
    /\ UNCHANGED <<decode_in, tree_vars, rnt_vars>>

\* keys() and to_akform() over the field records of a forest
ToAkformRecord ==
    /\ decode_in.kind = "forest"
    /\ decode_call' = "to_akform"
    /\ decode_out' =
         The({ [form |-> r.form, seen |-> r.seen, err |-> r.err,
                keys |-> _keys(decode_in.field_records)] :
                 r \in {to_akform_record(decode_in.field_records,
                                         decode_in.column_records)} })
    /\ UNCHANGED <<decode_in, tree_vars, rnt_vars>>

\* arrays(entry_start=..., entry_stop=...) on a tree of the given clusters
ArraysRange ==
    /\ decode_in.kind = "entry_range"
    /\ decode_call' = "arrays"
    /\ decode_out' = arrays_range(decode_in.cluster_summaries,
                                  decode_in.entry_start, decode_in.entry_stop)
    /\ UNCHANGED <<decode_in, tree_vars, rnt_vars>>

NextDecode ==
    \/ ToAkformRecord
    \/ ArraysRange
    \/ ReadColPages
    \/ FromZigzag
    \/ SplitSwitchBits
    \/ ReadFieldRecord
    \/ ReadPagedesc
    \/ ReadListFrame

SpecDecode == InitDecode /\ [][NextDecode]_vars

\* ------------------------------------------------ properties of the writer
\* the branches that have basket tables
Leaves(bd) == {i \in 1..Len(bd) : bd[i].kind # "record"}

\* the positions in a sink log of the basket writes, of one branch and of all
BasketWrites(log, name) ==
    {j \in 1..Len(log) : /\ log[j].op = "write"
                         /\ log[j].what.kind = "TBasket"
                         /\ log[j].what.branch = name}
AllBasketWrites(log) ==
    {j \in 1..Len(log) : log[j].op = "write" /\ log[j].what.kind = "TBasket"}

\* the positions in a sink log of the writes of the given kind
WritesOfKind(log, kind) ==
    {j \in 1..Len(log) : log[j].op = "write" /\ log[j].what.kind = kind}

\* the allocate calls among the calls made on the free-space manager
Allocations(calls) == {c \in 1..Len(calls) : calls[c][1] = "allocate"}
Releases(calls) == {c \in 1..Len(calls) : calls[c][1] = "release"}

\* what C2 lists of a tree's branches
BranchFields(bd) ==
    [i \in Leaves(bd) |->
       [fBasketBytes |-> bd[i].fBasketBytes, fBasketEntry |-> bd[i].fBasketEntry,
        fBasketSeek |-> bd[i].fBasketSeek, fTotBytes |-> bd[i].fTotBytes,
        fZipBytes |-> bd[i].fZipBytes,
        tleaf_maximum_value |-> bd[i].tleaf_maximum_value]]

\* the failures C2 lists: a missing or extra branch, unequal lengths, a shape
\* mismatch, a sink error
ListedFailures ==
    {"ValueError: missing", "ValueError: extra", "ValueError: entries",
     "ValueError: shape", "IOError"}

\* the data names every array the tree's branches need and nothing else
KeysMatch(bd, data) ==
    /\ DOMAIN data = UserNames(bd)
    /\ \A i \in 1..Len(bd) :
         bd[i].kind = "record" =>
           \A j \in 1..Len(bd[i].keys) :
             bd[i].keys[j] \in DOMAIN data[bd[i].name].fields

\* C1: after every successful extend, with or without growth, every branch
\* with basket tables has fBasketEntry[num_baskets] = num_entries whenever
\* num_baskets < basket_capacity
C1_WriterFencepost ==
    outcome = "ok" =>
      \A i \in Leaves(branch_data) :
        num_baskets < basket_capacity =>
          /\ InBounds(branch_data[i].fBasketEntry, num_baskets)
          /\ At(branch_data[i].fBasketEntry, num_baskets) = num_entries

\* a tree that failed once, grew, and holds two baskets below its capacity
C1_Witness ==
    /\ outcome = "ok"
    /\ nfailed > 0
    /\ moved # <<>>
    /\ num_baskets >= 2
    /\ num_baskets < basket_capacity
    /\ num_entries > 0

\* C2: an extend that fails for one of the listed reasons leaves num_entries,
\* num_baskets, basket_capacity, every branch's tables, byte counts and
\* counter maximum, and the location of the tree record as they were
C2_FailedExtendChangesNothing ==
    [][outcome' \in ListedFailures =>
         /\ num_entries' = num_entries
         /\ num_baskets' = num_baskets
         /\ basket_capacity' = basket_capacity
         /\ BranchFields(branch_data') = BranchFields(branch_data)
         /\ key'.location = key.location]_vars

\* C3: extend grows the capacity and relocates the tree record exactly when
\* num_baskets >= basket_capacity - 1 at entry, and otherwise leaves the
\* capacity and the record's location unchanged
C3_GrowsAndRelocatesExactlyAtCapacity ==
    [][IF num_baskets >= basket_capacity - 1
       THEN /\ basket_capacity' > basket_capacity
            /\ Len(moved') = Len(moved) + 1
            /\ moved'[Len(moved')] = <<key.location, key'.location>>
            /\ key'.location # key.location
       ELSE /\ basket_capacity' = basket_capacity
            /\ moved' = moved
            /\ key' = key]_vars

\* C4: every successful extend writes exactly one basket per branch with
\* basket tables, each in a region allocated for it and recorded at the table
\* index num_baskets had before the call, and adds 1 to num_baskets after
\* the baskets are written; after n successful extends num_baskets = n
C4_OneBasketPerBranch ==
    /\ [](num_baskets = ncalls - nfailed)
    /\ [][outcome' = "ok" =>
           /\ num_baskets' = num_baskets + 1
           /\ Cardinality(AllBasketWrites(sink_log'))
                = Cardinality(Leaves(branch_data'))
           /\ Cardinality(Allocations(freesegments'.calls))
                = Cardinality(Leaves(branch_data'))
                  + Cardinality(WritesOfKind(sink_log', "TTree"))
           /\ \A i \in Leaves(branch_data') :
                LET d == branch_data'[i]
                    w == BasketWrites(sink_log', d.fName)
                IN /\ Cardinality(w) = 1
                   /\ \A j \in w :
                        LET at == sink_log'[j].at
                            nbytes == sink_log'[j].what.fNbytes
                        IN /\ Cardinality({c \in Allocations(freesegments'.calls) :
                                  freesegments'.calls[c]
                                    = <<"allocate", at, at + nbytes>>}) = 1
                           /\ At(d.fBasketSeek, num_baskets) = at
                           /\ At(d.fBasketBytes, num_baskets) = nbytes
           /\ \A j \in AllBasketWrites(sink_log') :
                \A u \in WritesOfKind(sink_log', "ttree20_format1") \cup
                         WritesOfKind(sink_log', "tbranch13_format1") :
                  /\ j < u
                  /\ sink_log'[u].what.kind = "tbranch13_format1" =>
                       sink_log'[u].what.fWriteBasket = num_baskets + 1]_vars

\* two successful extends of a tree of two branches
C4_Witness ==
    /\ outcome = "ok"
    /\ num_baskets = 2
    /\ Cardinality(Leaves(branch_data)) = 2
    /\ Cardinality(AllBasketWrites(sink_log)) = 2

\* C5: when extend grows, the new capacity is max(old + 1, ceil(old *
\* resize_factor)), at least old + 1 for every old capacity >= 0 and every
\* resize_factor, one below 1 included
C5_GrowthAddsAtLeastOne ==
    [][num_baskets >= basket_capacity - 1 =>
         /\ basket_capacity' =
              Max(basket_capacity + 1,
                  Ceil(basket_capacity * resize_factor.num, resize_factor.den))
         /\ basket_capacity' >= basket_capacity + 1]_vars

\* a tree with resize_factor 0.5 whose last extend grew it to capacity 3
C5_Witness ==
    /\ resize_factor.num < resize_factor.den
    /\ basket_capacity = 3
    /\ Releases(freesegments.calls) # {}

\* C6: extend given data that lacks an array for a branch, or that has a key
\* of no branch, fails, writes no basket and leaves num_entries and
\* num_baskets as they were
C6_MissingOrExtraKeyIsFatal ==
    [][\A call \in CallsOfTree[TreeOf(branch_data)] :
         (~ KeysMatch(branch_data, call[1]) /\ Extend(call[1], call[2])) =>
           /\ outcome' # "ok"
           /\ AllBasketWrites(sink_log') = {}
           /\ Allocations(freesegments'.calls) \subseteq
                {c \in 1..Len(freesegments'.calls) :
                   freesegments'.calls[c][2] = key'.location}
           /\ num_entries' = num_entries
           /\ num_baskets' = num_baskets]_vars

\* an extend refused for a key of no branch, on a tree that holds entries
C6_Witness ==
    /\ outcome = "ValueError: extra"
    /\ num_entries > 0
    /\ AllBasketWrites(sink_log) = {}

\* C7: the last sink operation of every successful extend is a flush
C7_ExtendEndsWithFlush ==
    outcome = "ok" =>
      /\ sink_log # <<>>
      /\ sink_log[Len(sink_log)].op = "flush"

\* the positions in the calls of an extend of the calls of the given name
CallsNamed(order, name) == {j \in 1..Len(order) : order[j][1] = name}

C21_GrowthResizesEveryBranch ==
    [][num_baskets >= basket_capacity - 1 =>
         \E g \in {grow(TreeState)} :
           /\ g.err = ""
           /\ basket_capacity' = g.cap
           /\ g.cap = new_capacity(basket_capacity, resize_factor)
           /\ \A i \in Leaves(branch_data) :
                LET old == branch_data[i]
                    new == g.bd[i]
                IN /\ Len(new.fBasketBytes) = g.cap
                   /\ Len(new.fBasketEntry) = g.cap
                   /\ Len(new.fBasketSeek) = g.cap
                   /\ Len(branch_data'[i].fBasketBytes) = g.cap
                   /\ Len(branch_data'[i].fBasketEntry) = g.cap
                   /\ Len(branch_data'[i].fBasketSeek) = g.cap
                   /\ \A j \in 0..(g.cap - 1) :
                        IF j < basket_capacity
                        THEN /\ At(new.fBasketBytes, j) = At(old.fBasketBytes, j)
                             /\ At(new.fBasketEntry, j) = At(old.fBasketEntry, j)
                             /\ At(new.fBasketSeek, j) = At(old.fBasketSeek, j)
                        ELSE /\ At(new.fBasketBytes, j) = 0
                             /\ At(new.fBasketSeek, j) = 0
                             /\ At(new.fBasketEntry, j) =
                                  IF j = basket_capacity THEN num_entries
                                  ELSE 0]_vars

\* the jagged branches of scalar elements, and of fixed-size arrays
JaggedLeaves(bd) == {i \in Leaves(bd) : bd[i].counter # ""}

\* C22: the basket written for a jagged branch of scalar elements of item
\* size s from offsets o[0..k] with o[0] = 0 holds the data bytes, then the
\* number k + 1, then k + 1 offsets, of which entry i < k is
\* fKeylen + s * o[i] and the last is 0; fLast is fKeylen + s * o[k], fNevBuf
\* is k, fNbytes is fKeylen + fObjlen, and the branch's fEntryOffsetLen
\* becomes 4 * k
C22_JaggedBasketLayout ==
    [][\A call \in CallsOfTree[TreeOf(branch_data)] :
         (Extend(call[1], call[2]) /\ outcome' = "ok") =>
           \A i \in JaggedLeaves(branch_data') :
             LET d == branch_data'[i]
                 o == call[1][d.fName].offsets
                 k == Len(o) - 1
                 s == d.itemsize
             IN (d.shape = <<>> /\ At(o, 0) = 0) =>
                  /\ BasketWrites(sink_log', d.fName) # {}
                  /\ \A j \in BasketWrites(sink_log', d.fName) :
                       LET b == sink_log'[j].what
                       IN /\ b.data_bytes = s * At(o, k)
                          /\ b.offsets_count = k + 1
                          /\ Len(b.offsets) = k + 1
                          /\ \A m \in 0..(k - 1) :
                               At(b.offsets, m) = b.fKeylen + s * At(o, m)
                          /\ At(b.offsets, k) = 0
                          /\ b.fLast = b.fKeylen + s * At(o, k)
                          /\ b.fNevBuf = k
                          /\ b.fObjlen = b.data_bytes + 4 + 4 * (k + 1)
                          /\ b.fNbytes = b.fKeylen + b.fObjlen
                  /\ d.fEntryOffsetLen = 4 * k]_vars

\* a jagged basket of two rows of two items has been written
C22_Witness ==
    /\ outcome = "ok"
    /\ \E j \in AllBasketWrites(sink_log) :
         /\ sink_log[j].what.offsets_count = 3
         /\ sink_log[j].what.fNevBuf = 2
         /\ sink_log[j].what.data_bytes = 16
         /\ sink_log[j].what.offsets[3] = 0
         /\ sink_log[j].what.offsets[2] > sink_log[j].what.fKeylen

\* the counter branches
CounterLeaves(bd) == {i \in Leaves(bd) : bd[i].kind = "counter"}

\* a batch of no rows for a tree of jagged branches
IsEmptyBatch(bd, data) ==
    /\ DOMAIN data = UserNames(bd)
    /\ \A n \in DOMAIN data :
         /\ data[n].is = "jagged"
         /\ data[n].offsets = <<0>>
         /\ data[n].content.shape[1] = 0

\* the largest counter value of a batch for the counter branch of a jagged
\* branch: the longest row, 0 for no rows
BatchMaximum(bd, data, i) ==
    MaxDiff(data[CHOOSE n \in DOMAIN data : counter_name(n) = bd[i].fName].offsets)

\* C23: over extends that all succeed, with batches of any size, the empty
\* batch included, a counter branch's tleaf_maximum_value is the maximum of 0
\* and the counter values supplied so far (its old value and the batch's),
\* does not decrease, and is what the extend writes last into the counter
\* leaf's special struct
C23_CounterMaximum ==
    [][\A call \in CallsOfTree[TreeOf(branch_data)] :
         ( /\ Extend(call[1], call[2])
           /\ nfailed = 0
           /\ CounterLeaves(branch_data) # {}
           /\ outcome' = "ok" \/ IsEmptyBatch(branch_data, call[1]) ) =>
           /\ outcome' = "ok"
           /\ \A i \in CounterLeaves(branch_data) :
                LET old == branch_data[i].tleaf_maximum_value
                    new == branch_data'[i].tleaf_maximum_value
                    patches == {j \in WritesOfKind(sink_log', "tleaf_special_struct") :
                                  sink_log'[j].what.branch = branch_data[i].fName}
                IN /\ new = Max(old, BatchMaximum(branch_data, call[1], i))
                   /\ new >= old
                   /\ new >= 0
                   /\ Cardinality(patches) = 1
                   /\ \A j \in patches :
                        /\ sink_log'[j].what.fMaximum = new
                        /\ \A b \in AllBasketWrites(sink_log') : b < j]_vars

\* C26: a tree constructed with a capacity of at least 1 has
\* num_baskets < basket_capacity, and every extend, whatever the resize
\* factor and however it ends, keeps num_baskets < basket_capacity and makes
\* its writes to fBasketBytes[num_baskets], fBasketSeek[num_baskets] and
\* fBasketEntry[num_baskets + 1] within the tables
C26_BasketTableWritesInBounds ==
    [][/\ (ncalls = 0 /\ basket_capacity >= 1) =>
            num_baskets < basket_capacity
       /\ num_baskets < basket_capacity =>
            /\ num_baskets' < basket_capacity'
            /\ outcome' # "IndexError"
            /\ outcome' = "ok" =>
                 \A i \in Leaves(branch_data') :
                   /\ InBounds(branch_data'[i].fBasketBytes, num_baskets)
                   /\ InBounds(branch_data'[i].fBasketSeek, num_baskets)
                   /\ num_baskets + 1 < basket_capacity' =>
                        InBounds(branch_data'[i].fBasketEntry,
                                 num_baskets + 1)]_vars

\* the number of rows of a batch
BatchSize(data) ==
    LET a == data[CHOOSE n \in DOMAIN data : TRUE]
    IN CASE a.is = "jagged" -> Len(a.offsets) - 1
         [] a.is = "numpy" -> a.shape[1]
         [] a.is = "record" -> a.fields[CHOOSE k \in DOMAIN a.fields : TRUE].shape[1]

\* the sum of fTotBytes over the branches from the i-th on
RECURSIVE SumTotBytes(_, _)
SumTotBytes(bd, i) ==
    IF i > Len(bd) THEN 0
    ELSE (IF bd[i].kind = "record" THEN 0 ELSE bd[i].fTotBytes)
         + SumTotBytes(bd, i + 1)

\* the sum of the first n entries of a table
RECURSIVE SumFirst(_, _)
SumFirst(table, n) ==
    IF n = 0 THEN 0 ELSE table[n] + SumFirst(table, n - 1)

\* C27: while every extend succeeds, those that rebuild the tree record
\* included, num_entries and the tree's fTotBytes and fZipBytes do not
\* decrease, num_entries is the sum of the batch sizes (each extend adds its
\* batch's), the tree's fTotBytes is the sum of the branches' fTotBytes, and
\* each branch's fZipBytes is the sum of its fBasketBytes[0 .. num_baskets-1]
C27_CountersAccumulate ==
    [][\A call \in CallsOfTree[TreeOf(branch_data)] :
         (Extend(call[1], call[2]) /\ outcome' = "ok" /\ nfailed = 0) =>
           /\ ncalls = 0 => num_entries = 0
           /\ num_entries' = num_entries + BatchSize(call[1])
           /\ num_entries' >= num_entries
           /\ metadata'.fTotBytes >= metadata.fTotBytes
           /\ metadata'.fZipBytes >= metadata.fZipBytes
           /\ metadata'.fTotBytes = SumTotBytes(branch_data', 1)
           /\ \A i \in Leaves(branch_data') :
                /\ num_baskets' <= Len(branch_data'[i].fBasketBytes)
                /\ branch_data'[i].fZipBytes =
                     SumFirst(branch_data'[i].fBasketBytes, num_baskets')]_vars

\* three successful extends of a tree of two branches, the record rebuilt
C27_Witness ==
    /\ outcome = "ok"
    /\ nfailed = 0
    /\ moved # <<>>
    /\ num_baskets = 3
    /\ num_entries >= 4
    /\ Cardinality(Leaves(branch_data)) = 2
    /\ metadata.fTotBytes = SumTotBytes(branch_data, 1)
    /\ metadata.fTotBytes > 0

\* C28: in the basket of a jagged branch whose elements are fixed-size
\* arrays, each stored row offset is fKeylen plus the byte position at which
\* the row starts in the payload (the row's first element times the dtype's
\* item size times the product of the shape), and fLast is fKeylen plus the
\* payload's length in bytes
C28_FixedSizeArrayOffsets ==
    [][\A call \in CallsOfTree[TreeOf(branch_data)] :
         (Extend(call[1], call[2]) /\ outcome' = "ok") =>
           \A i \in JaggedLeaves(branch_data') :
             LET d == branch_data'[i]
                 o == call[1][d.fName].offsets
                 k == Len(o) - 1
                 row_bytes == d.itemsize * Prod(d.shape)
             IN (d.shape # <<>> /\ At(o, 0) = 0) =>
                  \A j \in BasketWrites(sink_log', d.fName) :
                    LET b == sink_log'[j].what
                    IN /\ b.data_bytes = row_bytes * At(o, k)
                       /\ \A m \in 0..(k - 1) :
                            At(b.offsets, m) = b.fKeylen + row_bytes * At(o, m)
                       /\ b.fLast = b.fKeylen + b.data_bytes]_vars

\* ------------------------------------------------ properties of the reader
\* the checksum of the file's header envelope matches its trailing checksum
HeaderChecksumMatches ==
    crc32(AllButLast4(source.header)) = unpack_u32(Last4(source.header))

\* the footer's header_crc32 differs from the header's trailing checksum, or
\* the footer's own trailing checksum does not match
FooterMismatches ==
    \/ FooterReader_read(source.footer).header_crc32
         # HeaderReader_read(source.header).crc32
    \/ crc32(AllButLast4(source.footer)) # unpack_u32(Last4(source.footer))

\* C8: over any sequence of accesses, a header is cached, and is returned by
\* the header property, only if the checksum of its envelope matches
C8_HeaderReturnedOnlyIfChecksumMatches ==
    /\ rntuple.header # None => HeaderChecksumMatches
    /\ (rnt_call = "header" /\ rntuple.err = "") => HeaderChecksumMatches

\* C9: in every sequence of calls, the header's records are read for a form
\* only after the header's checksum was verified, and a page is read only
\* after the footer's checksum was verified
C9_ChecksumsVerifiedBeforeUse ==
    \A i \in 1..Len(rntuple.events) :
      LET e == rntuple.events[i]
      IN /\ e.read = "page" => e.verified
         /\ (/\ rnt_call \in {"to_akform", "arrays"}
             /\ e.read \in {"field_records", "column_records"}) => e.verified

\* C10: whenever the footer's header_crc32 differs from the header's checksum
\* or the footer's own checksum mismatches, no footer is cached and every
\* access to the footer fails, the first and every later one
C10_MismatchingFooterNeverReturned ==
    FooterMismatches =>
      /\ rntuple.footer = None
      /\ rntuple.page_list_envelopes = <<>>
      /\ rnt_call \in {"footer", "arrays"} => rntuple.err # ""

\* the footer was read and refused although the header had been verified
C10_Witness ==
    /\ FooterMismatches
    /\ rnt_call = "footer"
    /\ rntuple.err = "AssertionError"
    /\ rntuple.footer_chunk_ready
    /\ "header" \in rntuple.verified

\* the trailing checksum of the file's page-list envelope at a link matches
\* the checksum of the bytes before it
PageListChecksumMatches(link) ==
    crc32(AllButLast4(source.page_lists[link]))
      = unpack_u32(Last4(source.page_lists[link]))

\* C11: every page-list envelope that was read and returned had its trailing
\* checksum compared with the checksum of the bytes before it, an envelope of
\* zero items included, so none whose checksum mismatches is returned
C11_PageListChecksumCompared ==
    \A i \in 1..Len(rntuple.events) :
      LET e == rntuple.events[i]
      IN e.read = "page_list" => PageListChecksumMatches(e.link)

\* the page lists of the clusters of the file's cluster groups from the i-th
\* on, in the order of the groups
RECURSIVE PageListsOfGroups(_, _)
PageListsOfGroups(records, i) ==
    IF i > Len(records) THEN <<>>
    ELSE Bytes(ListFrameReader_read(
                 source.page_lists[records[i].page_list_link], 1, 1).items)
         \o PageListsOfGroups(records, i + 1)
PageListsOfFile ==
    PageListsOfGroups(FooterReader_read(source.footer).cluster_group_records, 1)

\* C12: the page directory holds the page lists of every cluster of every
\* cluster group, and the pages read for a cluster are that cluster's own
C12_PageDirectoryCoversEveryGroup ==
    /\ \A i \in 1..Len(rntuple.page_list_envelopes) :
         (rntuple.err = "" /\ rnt_call = "arrays") =>
           /\ "pagelinklist" \in DOMAIN rntuple.page_list_envelopes[i]
           /\ rntuple.page_list_envelopes[i].pagelinklist = PageListsOfFile
    /\ \A i \in 1..Len(rntuple.events) :
         LET e == rntuple.events[i]
         IN e.read = "page" =>
              /\ InBounds(PageListsOfFile, e.cluster)
              /\ e.pages = At(PageListsOfFile, e.cluster)

\* the header's field and column records followed by those of the footer's
\* schema extension
MergedFieldRecords ==
    HeaderReader_read(source.header).field_records
      \o FooterReader_read(source.footer).extension_links.field_records
MergedColumnRecords ==
    HeaderReader_read(source.header).column_records
      \o FooterReader_read(source.footer).extension_links.column_records

\* C13: keys() and to_akform() work on the header's field and column records
\* followed by the records of the footer's schema extension: a top-level
\* field of the extension is among the keys and in the form
C13_ExtensionRecordsAreMerged ==
    /\ (rnt_call = "keys" /\ rntuple.err = "") =>
         rntuple.ret.keys = top_level_names(MergedFieldRecords, 0)
    /\ (rnt_call = "to_akform" /\ rntuple.err = "") =>
         /\ rntuple.ret.form = MergedFieldRecords
         /\ rntuple.ret.columns = MergedColumnRecords

\* --------------------------------------------- properties of the decoding
\* the elements of the pages of the clusters read, in order, as the pages
\* hold them
DecodedPageValues ==
    Concat([c \in 1..(decode_out.last - decode_out.first) |->
              read_pages(decode_in.pagelinklist[decode_out.first + c][1],
                         rntuple_col_num_to_size_dict(decode_in.dtype_byte),
                         decode_in.dtype_byte \in 14..21
                           \/ decode_in.dtype_byte \in 26..28)])

\* C14: an offset-index column decoded over any range of clusters, one that
\* spans several clusters included, has exactly one prepended 0: the buffer
\* starts with 0, is one longer than the elements read, and does not
\* decrease
C14_OneLeadingZero ==
    (/\ decode_call = "read_col_pages"
     /\ decode_in.dtype_byte <= col_type_index32
     /\ decode_out.result.err = "") =>
       LET buffer == decode_out.result.buffer
       IN /\ Len(buffer) = Len(DecodedPageValues) + 1
          /\ buffer = <<ZeroWord(Len(buffer[1]))>> \o DecodedPageValues
          /\ \A i \in 1..(Len(buffer) - 1) : WordLeq(buffer[i], buffer[i + 1])

\* C15: for a delta column (type 14 or 15) the returned buffer is the
\* running prefix sum of the concatenated decoded page values
C15_DeltaIsPrefixSum ==
    (/\ decode_call = "read_col_pages"
     /\ decode_in.dtype_byte \in 14..15
     /\ decode_out.result.err = "") =>
       decode_out.result.buffer = cumsum(DecodedPageValues)

\* C16: for every signed x of a zig-zag column's width, from_zigzag applied
\* to (x << 1) ^ (x >> (width - 1)), held in the column's signed dtype,
\* yields x
C16_ZigzagRoundTrip ==
    decode_call = "from_zigzag" => decode_out = decode_in.x

\* the low 44 bits of a 64-bit word, and its high 20 bits as a number
Low44(w) == WordAnd(w, <<255, 255, 255, 255, 255, 15, 0, 0>>)
High20(w) == NatOfWord(ShiftRight(w, 44, FALSE))

\* C17: of a switch word w the index is the low 44 bits (w mod 2^44) and
\* the tag is the high 20 bits minus one
C17_SwitchIndexIsLow44Bits ==
    decode_call = "_split_switch_bits" =>
      /\ decode_out.kindex = Low44(decode_in.content)
      /\ decode_out.tags = High20(decode_in.content) - 1

\* C18: index(w) = w & 0xFFFFF and tag(w) = (w >> 44) - 1 for every value of
\* the upper 20 bits
C18_SwitchTagIsHigh20BitsMinusOne ==
    decode_call = "_split_switch_bits" =>
      /\ decode_out.kindex
           = WordAnd(decode_in.content, <<255, 255, 15, 0, 0, 0, 0, 0>>)
      /\ decode_out.tags = High20(decode_in.content) - 1

\* C19: the u64 repetition of a field record is read exactly when bit 0 of
\* its flags is set, whatever the other flag bits are; otherwise the
\* repetition is 0 and no bytes are consumed for it
C19_RepetitionReadWhenBit0Set ==
    decode_call = "FieldRecordReader.read" =>
      IF decode_in.record.flags % 2 = 1
      THEN /\ decode_out.repetition = decode_in.record.repetition
           /\ decode_out.strings_at = 25
      ELSE /\ decode_out.repetition = 0
           /\ decode_out.strings_at = 17

\* C24: un-split for an element width w of 2, 4 or 8 bytes and a page of N
\* elements: the byte of the output at k * w + j is the byte of the page at
\* j * N + k, for 0 <= k < N and 0 <= j < w; the bytes are permuted, so
\* splitting the output again gives the page
C24_UnsplitIsTransposition ==
    (decode_call = "read_pagedesc" /\ decode_in.split) =>
      LET w == decode_in.nbits \div 8
          N == decode_in.desc.num_elements
          page == decode_in.desc.bytes
          output == Concat(decode_out)
      IN /\ Len(decode_out) = N
         /\ Len(output) = w * N
         /\ \A k \in 0..(N - 1), j \in 0..(w - 1) :
              /\ At(output, k * w + j) = At(page, j * N + k)
              /\ At(decode_out[k + 1], j) = At(page, j * N + k)
         /\ split_bytes(output, w) = page

\* a split page of three elements of 64 bits has been read
\* C25: every list frame read by the parser (ListFrameReader, PageLinkInner
\* and the top-level list of a page-list envelope) fails when its size
\* header is not negative, and otherwise leaves the outer cursor |size|
\* bytes past the start of the frame, whatever the item payloads consumed,
\* after reading exactly count payloads through an inner cursor
C25_ListFrameCursor ==
    decode_call = "list_frame" =>
      IF decode_in.size >= 0
      THEN decode_out.err = "AssertionError"
      ELSE /\ decode_out.err = ""
           /\ decode_out.cursor = decode_in.start + (0 - decode_in.size)
           /\ decode_out.reads = decode_in.count
           /\ Len(decode_out.value) = decode_in.count

\* the ids of the fields that are their own parent, in ascending order
RECURSIVE TopFieldsFrom(_, _)
TopFieldsFrom(field_records, i) ==
    IF i >= Len(field_records) THEN <<>>
    ELSE (IF i \in { j \in 0..(Len(field_records) - 1) :
                       At(field_records, j).parent_field_id = j }
          THEN <<i>> ELSE <<>>)
         \o TopFieldsFrom(field_records, i + 1)

\* C29: for every field forest that satisfies the invariants of the data
\* model, to_akform visits every field id exactly once, and its top-level
\* record has one child form per entry of keys(), in the same order: the
\* k-th form is the form of the k-th field that is its own parent and the
\* k-th key is that field's name
C29_ToAkformVisitsEveryFieldOnce ==
    (decode_call = "to_akform" /\ DataModel(decode_in.field_records)) =>
      LET field_records == decode_in.field_records
          n == Len(field_records)
          tops == TopFieldsFrom(field_records, 0)
      IN /\ decode_out.err = ""
         /\ Len(decode_out.seen) = n
         /\ \A i \in 0..(n - 1) : InList(i, decode_out.seen)
         /\ decode_out.form.fields = decode_out.keys
         /\ Len(decode_out.form.contents) = Len(decode_out.keys)
         /\ Len(decode_out.keys) = Len(tops)
         /\ \A k \in 1..Len(tops) :
              /\ decode_out.keys[k] = At(field_records, tops[k]).field_name
              /\ decode_out.form.contents[k] =
                   field_form(field_records, decode_in.column_records,
                              tops[k], <<>>).form

\* a forest of four fields: a struct at the top whose fields are the second
\* and the fourth, and another field at the top between them
C29_Witness ==
    /\ decode_call = "to_akform"
    /\ DataModel(decode_in.field_records)
    /\ Len(decode_in.field_records) = 4
    /\ decode_out.err = ""
    /\ decode_out.seen = <<0, 1, 3, 2>>
    /\ decode_out.keys = <<"a", "c">>
    /\ Len(decode_out.form.contents) = 2

\* C30: for every 0 <= entry_start <= entry_stop <= len(tree), entry_stop = 0
\* and entry_start = entry_stop included, arrays(entry_start, entry_stop)
\* returns exactly the entries numbered entry_start to entry_stop - 1, and
\* the clusters it decodes are a contiguous ascending range that covers
\* every cluster that holds an entry of that range
C30_ArraysReturnsTheEntryRange ==
    (/\ decode_call = "arrays"
     /\ 0 <= decode_in.entry_start
     /\ decode_in.entry_start <= decode_in.entry_stop
     /\ decode_in.entry_stop <= _length(decode_in.cluster_summaries)) =>
      /\ decode_out.err = ""
      /\ decode_out.entries =
           [ k \in 1..(decode_in.entry_stop - decode_in.entry_start) |->
               decode_in.entry_start + k - 1 ]
      /\ 0 <= decode_out.start_cluster_idx
      /\ decode_out.stop_cluster_idx <= Len(decode_in.cluster_summaries)
      /\ \A i \in 0..(Len(decode_in.cluster_summaries) - 1) :
           LET c == At(decode_in.cluster_summaries, i)
           IN (\E e \in decode_in.entry_start..(decode_in.entry_stop - 1) :
                 c.num_first_entry <= e /\ e < c.num_first_entry + c.num_entries)
              => (decode_out.start_cluster_idx <= i
                  /\ i < decode_out.stop_cluster_idx)

C24_Witness ==
    /\ decode_call = "read_pagedesc"
    /\ decode_in.split
    /\ decode_in.nbits = 64
    /\ decode_in.desc.num_elements = 3
    /\ decode_out[1] = <<1, 4, 7, 10, 13, 16, 19, 22>>

====
